---------------------------- MODULE Spec2Model ----------------------------
(***************************************************************************)
(* Model of the legal-advisor API: the trace projector                     *)
(* (extract_thinking_steps_from_log), the blocking submission              *)
(* (_run_analysis behind POST/GET /analyze-case), the streaming submission *)
(* (generate_thinking_stream) and the tool executor (execute_tools).       *)
(*                                                                         *)
(* Python strings are TLA+ strings; Len, \o and SubSeq act on them.        *)
(* Timestamps (datetime.now()) are left out of every record: no branch of  *)
(* the code reads them.  The pictograph that starts each display title in  *)
(* the source is left out of the titles.                                   *)
(***************************************************************************)
EXTENDS Integers, Sequences, FiniteSets, TLC

(***************************************************************************)
(* Bounds of the model.                                                    *)
(***************************************************************************)
\* longest event sequence the event source delivers in one run
MaxChunks == 3

\* most search queries in one tool call
MaxQueries == 3

\* longest event sequence delivered to each of two concurrent runs
MaxConcurrentChunks == 2

\* most messages in a final response handed to extract_references
MaxMessages == 2

(***************************************************************************)
(* State.                                                                  *)
(***************************************************************************)
VARIABLES
    log_chunks,        \* the events collected by _run_analysis / handed to the projector
    thinking_steps,    \* what extract_thinking_steps_from_log returned
    proj,              \* the projector's locals: steps, step_counter, current_node, accumulated_content
    chunk_index,       \* the projector's position in log_chunks
    proj_pc            \* "idle", "loop", "defaults", "returned"

VARIABLES
    case_description,  \* the submitted text
    run_pc,            \* "idle", "validate", "stream", "fallback", "complete_fallback", "assemble", "done"
    final_response,    \* the name of the final response, None before there is one
    calls,             \* calls made so far to each external capability, and how many of the workflow executions raised
    responses          \* what the endpoint has returned or raised, in order

VARIABLES
    gen_pc,       \* "idle", "created", "y_invalid", "y_start", "await", "y_step_complete", "y_step_start", "y_update", "y_final_complete", "y_complete", "y_error", "finished", "closed", "crashed"
    gen,          \* the generator's locals: step_counter, current_node, accumulated_content
    held,         \* the chunk being handled while suspended at its step_complete, else None
    events,       \* the UI events the consumer has received, in order
    delivered,    \* the chunks the generator has read from the event source, in order
    consumer,     \* "reading" or "stopped"
    fault,        \* an exception left the generator
    at_stop       \* events and delivered as they were when the consumer stopped

VARIABLES
    tool_calls,     \* the tool_calls of the last message of the state
    tool_pc,        \* "idle", "start", "call", "queries", "invoking", "returned", "raised"
    call_index,     \* position of "for tool_call in ..."
    query_index,    \* position of "for query in search_queries"
    in_flight,      \* positions of the queries whose search call has not returned
    query_results,  \* query string -> search result or inline error
    tool_messages,  \* the list execute_tools builds and returns
    outcomes        \* how each search call made so far ended: <<call, query position, "ok" | "raised">>

VARIABLES
    frames,   \* concurrent submissions: the locals of each run's coroutine or generator
    fed       \* what the event source and the consumer have delivered to each run, in order

VARIABLES
    history,    \* the final response handed to extract_references
    extracted   \* the lists extract_references has returned for it, in order

projVars == <<proj, chunk_index, proj_pc>>

conVars == <<frames, fed>>

refVars == <<history, extracted>>

runVars == <<case_description, run_pc, final_response, calls, responses>>

genVars == <<gen_pc, gen, held, events, delivered, consumer, fault, at_stop>>

toolVars == <<tool_calls, tool_pc, call_index, query_index, in_flight,
              query_results, tool_messages, outcomes>>

\* the variables the generator shares with the blocking submission
sharedVars == <<case_description, calls>>

\* what the actions of one component leave alone
notGenVars == <<run_pc, final_response, responses, log_chunks, thinking_steps,
                projVars, toolVars, conVars, refVars>>
notToolVars == <<runVars, log_chunks, thinking_steps, projVars, genVars,
                 conVars, refVars>>
notRunVars == <<projVars, genVars, toolVars, conVars, refVars>>
notProjVars == <<runVars, genVars, toolVars, conVars, refVars>>
notConVars == <<log_chunks, thinking_steps, projVars, runVars, genVars,
                toolVars, refVars>>
notRefVars == <<log_chunks, thinking_steps, projVars, runVars, genVars,
                toolVars, conVars>>

vars == <<log_chunks, thinking_steps, projVars, runVars, genVars, toolVars,
          conVars, refVars>>

(***************************************************************************)
(* Python values.                                                          *)
(***************************************************************************)
\* Python's None, where a string is expected
None == "<None>"

\* the characters str.strip() removes
Whitespace == {" ", "\t", "\n", "\r"}

Char(s, i) == SubSeq(s, i, i)

RECURSIVE LStrip(_)
LStrip(s) ==
    IF Len(s) > 0 /\ Char(s, 1) \in Whitespace
    THEN LStrip(SubSeq(s, 2, Len(s)))
    ELSE s

RECURSIVE RStrip(_)
RStrip(s) ==
    IF Len(s) > 0 /\ Char(s, Len(s)) \in Whitespace
    THEN RStrip(SubSeq(s, 1, Len(s) - 1))
    ELSE s

\* str.strip()
Strip(s) == RStrip(LStrip(s))

\* k occurs in s at index i
MatchAt(s, i, k) == i + Len(k) - 1 <= Len(s) /\ SubSeq(s, i, i + Len(k) - 1) = k

\* str.startswith(p)
StartsWith(s, p) == MatchAt(s, 1, p)

\* the first index >= i at which k occurs in s, 0 when there is none
RECURSIVE FindFrom(_, _, _)
FindFrom(s, k, i) ==
    IF i + Len(k) - 1 > Len(s) THEN 0
    ELSE IF SubSeq(s, i, i + Len(k) - 1) = k THEN i
    ELSE FindFrom(s, k, i + 1)

\* k in s
Contains(s, k) == FindFrom(s, k, 1) > 0

\* s.split(sep) for a one-character separator
RECURSIVE Split(_, _)
Split(s, sep) ==
    LET i == FindFrom(s, sep, 1)
    IN  IF i = 0 THEN <<s>>
        ELSE <<SubSeq(s, 1, i - 1)>> \o Split(SubSeq(s, i + 1, Len(s)), sep)

\* n copies of s
RECURSIVE Rep(_, _)
Rep(s, n) == IF n = 0 THEN "" ELSE s \o Rep(s, n - 1)

(***************************************************************************)
(* The node registry (node_map) of extract_thinking_steps_from_log.        *)
(***************************************************************************)
node_map ==
    [generate |-> <<"Initial Legal Analysis",
                    "Analyzing case facts and identifying key legal issues">>,
     critique |-> <<"Critical Review",
                    "Reviewing analysis for gaps, inconsistencies, and areas needing research">>,
     websearch |-> <<"Legal Research",
                     "Searching for relevant laws, precedents, and legal authorities">>,
     ReviseAnswer |-> <<"Final Synthesis",
                        "Incorporating research findings and finalizing legal opinion">>,
     AnswerQuestion |-> <<"Answer Formulation",
                          "Structuring the comprehensive legal analysis">>,
     research |-> <<"Research Phase", "Conducting detailed legal research">>,
     analyze |-> <<"Legal Analysis", "Applying legal principles to case facts">>]

\* node_map.get(node, default)
NodeMapGet(map, node, default) ==
    IF node \in DOMAIN map THEN map[node] ELSE default

\* the keywords of a streamed-output path
PathKeywords == {"/streamed_output", "/llm", "/output"}

\* accumulated text longer than this is cut in a Step's details
DetailCap == 1000

\* content of at most this many characters is not content
MinContent == 20

(***************************************************************************)
(* Trace events.  A chunk has a shape: "obj" (an object with op, path and  *)
(* value attributes), "dict" (a mapping; an absent key reads as .get's     *)
(* default: op None, path "", value "") or "other" (anything else).  A     *)
(* value has a kind: "text", "error" (an exception object, str() gives its *)
(* message), "dict" (has .get), "list", or "bad" (str() and .get raise);   *)
(* text is what str(value) returns and final what the value holds as the   *)
(* run's final output (the name of a final response, None when absent).    *)
(***************************************************************************)
TextValue(t) == [kind |-> "text", text |-> t, final |-> None]
ErrorValue(m) == [kind |-> "error", text |-> m, final |-> None]
DictValue(t, f) == [kind |-> "dict", text |-> t, final |-> f]
ListValue(t, f) == [kind |-> "list", text |-> t, final |-> f]
BadValue == [kind |-> "bad", text |-> "", final |-> None]

Chunk(shape, op, path, value) ==
    [shape |-> shape, op |-> op, path |-> path, value |-> value]

\* str(value) raises
StrRaises(value) == value.kind = "bad"

\* str(value)
Str(value) == value.text

\* hasattr(chunk, 'op') and hasattr(chunk, 'path') and hasattr(chunk, 'value')
HasOpPathValue(chunk) == chunk.shape = "obj"

\* isinstance(chunk, dict)
IsDict(chunk) == chunk.shape = "dict"

(***************************************************************************)
(* extract_thinking_steps_from_log, one chunk at a time.                   *)
(***************************************************************************)
ThinkingStep(number, name, description, details) ==
    [step_number |-> number, step_name |-> name,
     description |-> description, details |-> details]

\* op == 'add' and any(keyword in path for keyword in [...])
IsStreamedAdd(chunk) ==
    /\ chunk.op = "add"
    /\ \E keyword \in PathKeywords : Contains(chunk.path, keyword)

\* any text that is not empty
IsContentAny(content) == content # ""

\* text that starts with a brace passes
IsContentBraceAllowed(content) == Len(content) > MinContent

\* content and len(content) > 20 and not content.startswith('{')
IsContent(content) ==
    /\ content # ""
    /\ Len(content) > MinContent
    /\ ~StartsWith(content, "{")

\* the loop over path_parts: the first part with a ':' whose head is a
\* registry node names the node; "analyze" when there is none
RECURSIVE NodeOfParts(_, _)
NodeOfParts(parts, map) ==
    IF parts = <<>> THEN "analyze"
    ELSE LET part == Head(parts)
             potential_node == Split(part, ":")[1]
         IN  IF Contains(part, ":") /\ potential_node \in DOMAIN map
             THEN potential_node
             ELSE NodeOfParts(Tail(parts), map)

\* every path is taken for one of the node generate
ResolveToGenerate(path, map) == "generate"

ResolveNode(path, map) == NodeOfParts(Split(path, "/"), map)

\* text of exactly cap characters is cut as well
TruncateAtCap(text, cap) ==
    IF Len(text) >= cap THEN SubSeq(text, 1, cap) \o "..." ELSE text

\* accumulated_content[:cap] + "..." if len(accumulated_content) > cap
\* else accumulated_content
Truncate(text, cap) ==
    IF Len(text) > cap THEN SubSeq(text, 1, cap) \o "..." ELSE text

\* the state of the projection before any chunk
ProjInit ==
    [steps |-> <<>>, step_counter |-> 1,
     current_node |-> None, accumulated_content |-> ""]

\* "Save previous step" without the reset of accumulated_content
FlushStepNoReset(st) ==
    [st EXCEPT
       !.steps = Append(st.steps,
                    ThinkingStep(st.step_counter, node_map[st.current_node][1],
                        node_map[st.current_node][2],
                        IF Len(st.accumulated_content) > DetailCap
                        THEN SubSeq(st.accumulated_content, 1, DetailCap) \o "..."
                        ELSE st.accumulated_content)),
       !.step_counter = st.step_counter + 1]

\* "Save previous step" without "step_counter += 1"
FlushStepSameNumber(st) ==
    [st EXCEPT
       !.steps = Append(st.steps,
                    ThinkingStep(st.step_counter, node_map[st.current_node][1],
                        node_map[st.current_node][2],
                        Truncate(st.accumulated_content, DetailCap))),
       !.accumulated_content = ""]

\* the Step of current_node is put in front of the list
FlushStepInFront(st) ==
    [st EXCEPT
       !.steps = <<ThinkingStep(st.step_counter, node_map[st.current_node][1],
                       node_map[st.current_node][2],
                       Truncate(st.accumulated_content, DetailCap))>> \o st.steps,
       !.step_counter = st.step_counter + 1,
       !.accumulated_content = ""]

\* "Save previous step": append the Step of current_node
FlushStep(st) ==
    LET entry == NodeMapGet(node_map, st.current_node,
                     <<"Legal Step " \o st.current_node,
                       "Processing legal analysis">>)
    IN  [st EXCEPT
           !.steps = Append(st.steps,
                        ThinkingStep(st.step_counter, entry[1], entry[2],
                            Truncate(st.accumulated_content, DetailCap))),
           !.step_counter = st.step_counter + 1,
           !.accumulated_content = ""]

\* the body of "for chunk in log_chunks"
ProcessChunk(st, chunk) ==
    IF ~(HasOpPathValue(chunk) \/ IsDict(chunk)) THEN st
    ELSE IF ~IsStreamedAdd(chunk) THEN st
    ELSE IF StrRaises(chunk.value) THEN st
    ELSE LET content == Strip(Str(chunk.value))
         IN  IF ~IsContent(content) THEN st
             ELSE LET node_name == ResolveNode(chunk.path, node_map)
                      flushed ==
                          IF node_name # st.current_node
                             /\ st.accumulated_content # ""
                          THEN FlushStep(st) ELSE st
                  IN  [flushed EXCEPT
                         !.current_node = node_name,
                         !.accumulated_content =
                             flushed.accumulated_content \o content \o "\n"]

\* "Add final accumulated step"
FinalFlush(st) ==
    IF st.current_node # None /\ st.current_node # ""
       /\ st.accumulated_content # ""
    THEN LET entry == NodeMapGet(node_map, st.current_node,
                          <<"Final Analysis", "Completing legal analysis">>)
         IN  [st EXCEPT
                !.steps = Append(st.steps,
                             ThinkingStep(st.step_counter, entry[1], entry[2],
                                 Truncate(st.accumulated_content, DetailCap)))]
    ELSE st

\* the default steps
DefaultSteps ==
    << ThinkingStep(1, "Case Analysis Initiated",
          "Beginning comprehensive legal analysis of the submitted case",
          "Parsing case description, identifying parties, key facts, potential legal issues, and applicable areas of law. Determining the scope and complexity of the legal matter."),
       ThinkingStep(2, "Legal Framework Assessment",
          "Evaluating applicable laws, regulations, and legal principles",
          "Identifying relevant statutes, regulations, case law, and legal doctrines that apply to this matter. Analyzing jurisdictional issues and procedural requirements."),
       ThinkingStep(3, "Research and Precedent Analysis",
          "Conducting comprehensive legal research for supporting authorities",
          "Searching legal databases for relevant case law, statutory provisions, regulatory guidance, and scholarly commentary. Analyzing precedents and their applicability to the current case."),
       ThinkingStep(4, "Comprehensive Legal Analysis",
          "Synthesizing research findings with case facts",
          "Applying legal principles to case facts, analyzing strengths and weaknesses, identifying potential defenses or counterarguments, and formulating legal strategy recommendations."),
       ThinkingStep(5, "Final Opinion and Recommendations",
          "Finalizing legal assessment and strategic recommendations",
          "Preparing comprehensive legal opinion with clear conclusions, risk assessment, recommended actions, and next steps for the client.") >>

\* the steps returned as they are
NoDefaultSteps(steps) == steps

\* "if not steps: steps = [...]"
OrDefaultSteps(steps) == IF steps = <<>> THEN DefaultSteps ELSE steps

RECURSIVE ProcessChunks(_, _)
ProcessChunks(st, chunks) ==
    IF chunks = <<>> THEN st
    ELSE ProcessChunks(ProcessChunk(st, Head(chunks)), Tail(chunks))

\* the whole function
extract_thinking_steps_from_log(chunks) ==
    OrDefaultSteps(FinalFlush(ProcessChunks(ProjInit, chunks)).steps)

(***************************************************************************)
(* The events the model draws its inputs from.                             *)
(***************************************************************************)
PathGenerate == "/logs/generate:1/streamed_output/-"
PathWebsearch == "/logs/websearch:2/llm/output"
\* names no registry node: resolves to the fallback node
PathUnresolved == "/logs/ChatGoogleGenerativeAI:3/streamed_output/-"
\* the first part with a ':' names no registry node, the second does
PathNested == "/logs/seq:4/critique:5/output"
\* no streamed-output keyword
PathFinal == "/logs/generate:1/final_output"
PathRoot == ""

TextIssues == "Identifying the key legal issues of the dispute."
TextPadded == "  Reviewing statutes and precedent.  \n"
TextSearch == "Searching for consumer protection precedents"
TextApply == "Applying the limitation period to the facts"
TextLong == Rep("0123456789", 61)
\* 499 characters: two of them accumulate to exactly 1000
TextHalfCap == Rep("0123456789", 49) \o "012345678"
TextShort == "ok, continuing"
TextBlank == "  \n "
TextJson == "{'answer': 'section 35 applies to the complaint'}"
ErrorMessage == "search backend unavailable (timed out)"

ChunkIssues == Chunk("obj", "add", PathGenerate, TextValue(TextIssues))
ChunkPadded == Chunk("obj", "add", PathGenerate, TextValue(TextPadded))
ChunkSearch == Chunk("dict", "add", PathWebsearch, TextValue(TextSearch))
ChunkApply == Chunk("obj", "add", PathUnresolved, TextValue(TextApply))
ChunkLong == Chunk("obj", "add", PathNested, TextValue(TextLong))
ChunkLongUnresolved == Chunk("obj", "add", PathUnresolved, TextValue(TextHalfCap))
ChunkError == Chunk("obj", "add", PathGenerate, ErrorValue(ErrorMessage))
ChunkShort == Chunk("obj", "add", PathWebsearch, TextValue(TextShort))
ChunkBlank == Chunk("dict", "add", PathNested, TextValue(TextBlank))
ChunkJson == Chunk("obj", "add", PathWebsearch, DictValue(TextJson, None))
ChunkBad == Chunk("obj", "add", PathWebsearch, BadValue)
ChunkOther == Chunk("other", None, "", TextValue(""))
ChunkNoKeyword == Chunk("obj", "add", PathFinal, TextValue(TextIssues))
ChunkReplace == Chunk("dict", "replace", PathWebsearch, TextValue(TextSearch))

\* the events of a log handed to the projector
ProjChunks ==
    {ChunkIssues, ChunkPadded, ChunkSearch, ChunkApply, ChunkLong,
     ChunkLongUnresolved, ChunkError, ChunkShort, ChunkBlank, ChunkJson,
     ChunkBad, ChunkOther, ChunkNoKeyword, ChunkReplace}

\* every sequence over S of length at most n
SeqsUpTo(S, n) == UNION {[1..k -> S] : k \in 0..n}

(***************************************************************************)
(* The projector run step by step over a given log.                        *)
(***************************************************************************)
\* one iteration of "for chunk in log_chunks"
ProjLoop ==
    /\ proj_pc = "loop"
    /\ chunk_index <= Len(log_chunks)
    /\ proj' = ProcessChunk(proj, log_chunks[chunk_index])
    /\ chunk_index' = chunk_index + 1
    /\ UNCHANGED <<log_chunks, thinking_steps, proj_pc>>
    /\ UNCHANGED notProjVars

\* the end of the loop: "Add final accumulated step"
ProjFinal ==
    /\ proj_pc = "loop"
    /\ chunk_index > Len(log_chunks)
    /\ proj' = FinalFlush(proj)
    /\ proj_pc' = "defaults"
    /\ UNCHANGED <<log_chunks, thinking_steps, chunk_index>>
    /\ UNCHANGED notProjVars

\* "if not steps: ..." and "return steps"
ProjReturn ==
    /\ proj_pc = "defaults"
    /\ thinking_steps' = OrDefaultSteps(proj.steps)
    /\ proj' = [proj EXCEPT !.steps = OrDefaultSteps(proj.steps)]
    /\ proj_pc' = "returned"
    /\ UNCHANGED <<log_chunks, chunk_index>>
    /\ UNCHANGED notProjVars

(***************************************************************************)
(* Final responses: the message history a workflow run returns.  A message *)
(* is a record; only an assistant message has the field tool_calls.  A     *)
(* tool call and its args are mappings; a malformed one lacks keys.        *)
(***************************************************************************)
HumanMessage(content) == [type |-> "human", content |-> content]
ToolMessage(content, id) ==
    [type |-> "tool", content |-> content, tool_call_id |-> id]
AIMessage(content, invocations) ==
    [type |-> "ai", content |-> content, tool_calls |-> invocations]

\* the two schemas an Actor turn is forced to
ActorTools == {"AnswerQuestion", "ReviseAnswer"}

UrlStatute == "https://indiacode.nic.in/cpa2019"
UrlCase == "http://example.org/case?id=7"

AnswerCall ==
    [name |-> "AnswerQuestion", id |-> "call_1",
     args |-> [answer |-> "Initial answer: the claim is within limitation.",
               search_queries |-> <<"consumer protection act 2019 limitation">>]]

ReviseCall ==
    [name |-> "ReviseAnswer", id |-> "call_2",
     args |-> [answer |-> "Revised answer: file before the District Commission [1].",
               search_queries |-> <<>>,
               references |-> <<UrlStatute, "Section 69 of the Act", None,
                                "http-status of the portal", UrlStatute>>]]

\* a tool call whose answer is not a string
NullAnswerCall ==
    [name |-> "ReviseAnswer", id |-> "call_3",
     args |-> [answer |-> None, references |-> <<>>]]

\* a tool call without a name
NamelessCall == [id |-> "call_4", args |-> [answer |-> "Unnamed draft"]]

SearchResultText ==
    "{\"consumer protection act 2019 limitation\": \"see <" \o UrlCase \o "> and " \o UrlStatute \o "\"}"

HistoryAnswered ==
    << HumanMessage("case"), AIMessage("", <<AnswerCall>>) >>

HistoryRevised ==
    << HumanMessage("case"), AIMessage("", <<AnswerCall>>),
       ToolMessage(SearchResultText, "call_1"), AIMessage("", <<ReviseCall>>) >>

HistoryPlain ==
    << HumanMessage("case"),
       AIMessage("The complaint lies under the Act; see " \o UrlCase, <<>>) >>

HistoryNullAnswer ==
    << HumanMessage("case"), AIMessage("", <<NullAnswerCall>>) >>

HistoryNameless ==
    << HumanMessage("case"), ToolMessage(SearchResultText, "call_1"),
       AIMessage("", <<NamelessCall>>) >>

\* the final responses by name; None and "empty" are falsy
ResponseOf(name) ==
    CASE name = "answered" -> HistoryAnswered
      [] name = "revised" -> HistoryRevised
      [] name = "plain" -> HistoryPlain
      [] name = "nullanswer" -> HistoryNullAnswer
      [] name = "nameless" -> HistoryNameless
      [] OTHER -> <<>>

ResponseNames == {"answered", "revised", "plain", "nullanswer", "nameless", "empty"}

\* "if final_response" / "if not final_response"
Truthy(name) == name # None /\ ResponseOf(name) # <<>>

\* hasattr(message, 'tool_calls') and message.tool_calls
HasToolCalls(message) ==
    "tool_calls" \in DOMAIN message /\ message.tool_calls # <<>>

\* mapping.get(key, default)
Get(mapping, key, default) ==
    IF key \in DOMAIN mapping THEN mapping[key] ELSE default

(***************************************************************************)
(* extract_references.                                                     *)
(***************************************************************************)
\* a character the pattern's class [^\s<>"] accepts
UrlChar(c) == c \notin Whitespace \cup {"<", ">", "\""}

\* length of the scheme "http://" or "https://" at index i of s, 0 if none
SchemeAt(s, i) ==
    IF MatchAt(s, i, "http://") THEN 7
    ELSE IF MatchAt(s, i, "https://") THEN 8
    ELSE 0

\* the last index of the run of accepted characters that starts at index i
RECURSIVE RunEnd(_, _)
RunEnd(s, i) ==
    IF i + 1 <= Len(s) /\ UrlChar(Char(s, i + 1)) THEN RunEnd(s, i + 1) ELSE i

\* re.findall(r'https?://[^\s<>"]+', s), scanning from index i
RECURSIVE FindUrlsFrom(_, _)
FindUrlsFrom(s, i) ==
    IF i > Len(s) THEN <<>>
    ELSE LET n == SchemeAt(s, i)
         IN  IF n > 0 /\ i + n <= Len(s) /\ UrlChar(Char(s, i + n))
             THEN LET j == RunEnd(s, i + n)
                  IN  <<SubSeq(s, i, j)>> \o FindUrlsFrom(s, j + 1)
             ELSE FindUrlsFrom(s, i + 1)

FindUrls(s) == FindUrlsFrom(s, 1)

\* the elements of a sequence
Range(seq) == {seq[i] : i \in DOMAIN seq}

\* ref and isinstance(ref, str) and ref.startswith('http')
KeepsRef(ref) == ref # None /\ ref # "" /\ StartsWith(ref, "http")

\* the first pass raises: the tool call has no 'name', or no 'args'
Pass1Raises(response) ==
    /\ response # <<>>
    /\ HasToolCalls(response[Len(response)])
    /\ LET final_tool_call == response[Len(response)].tool_calls[1]
       IN  \/ "name" \notin DOMAIN final_tool_call
           \/ /\ final_tool_call.name \in ActorTools
              /\ "args" \notin DOMAIN final_tool_call

\* the references the first pass collects (it does not raise)
Pass1(response) ==
    IF response # <<>> /\ HasToolCalls(response[Len(response)])
    THEN LET final_tool_call == response[Len(response)].tool_calls[1]
         IN  IF final_tool_call.name \in ActorTools
             THEN {ref \in Range(Get(final_tool_call.args, "references", <<>>)) :
                      KeepsRef(ref)}
             ELSE {}
    ELSE {}

\* the URLs the second pass finds in the content of every message
Pass2(response) ==
    UNION {Range(FindUrls(response[i].content)) : i \in DOMAIN response}

\* list(set(references)): the list's order is not determined, the model
\* keeps the set
extract_references(response) ==
    IF Pass1Raises(response) THEN {}
    ELSE Pass1(response) \cup Pass2(response)

(***************************************************************************)
(* _run_analysis: "Extract final answer with multiple fallback methods".   *)
(***************************************************************************)
DefaultAnswer == "Analysis completed successfully."

\* the answer of the first message of the history that carries a tool call
FirstDraftAnswer(response) ==
    LET drafts == SelectSeq(response, HasToolCalls)
    IN  IF drafts = <<>> THEN DefaultAnswer
        ELSE drafts[1].tool_calls[1].args.answer

FinalAnswer(response) ==
    IF response = <<>> THEN DefaultAnswer
    ELSE LET last_message == response[Len(response)]
         IN  IF HasToolCalls(last_message)
             THEN Get(Get(last_message.tool_calls[1], "args", << >>),
                      "answer", DefaultAnswer)
             ELSE IF last_message.content # ""
             THEN last_message.content
             ELSE DefaultAnswer

(***************************************************************************)
(* The blocking submission: POST/GET /analyze-case and _run_analysis.      *)
(***************************************************************************)
\* a case description needs this many characters after strip()
MinCaseLength == 50

\* at most this many references get a link summary
MaxLinks == 5

CaseEmpty == ""
CaseShort == "My landlord kept my deposit."
\* 49 characters
Case49 == Rep("facts", 9) \o "four"
\* 50 characters, none of them whitespace
Case50 == Rep("facts", 10)
\* 50 characters, 49 after strip()
CaseTrailing == Rep("case ", 10)
\* 60 characters, all of them blank
CaseBlank == Rep(" ", 60)
\* 64 characters, 60 after strip()
CasePadded == "  " \o Rep("facts", 12) \o "  "

CaseInputs ==
    {CaseEmpty, CaseShort, Case49, Case50, CaseTrailing, CaseBlank, CasePadded}

\* root replace events, which carry the run's final output
ChunkRootDict ==
    Chunk("obj", "replace", PathRoot, DictValue("{'final_output': [...]}", "revised"))
ChunkRootNone ==
    Chunk("obj", "replace", PathRoot, DictValue("{'final_output': None}", None))
ChunkRootList ==
    Chunk("obj", "replace", PathRoot, ListValue("[HumanMessage(...), AIMessage(...)]", "answered"))
ChunkRootBad == Chunk("obj", "replace", PathRoot, BadValue)

\* the events astream_log delivers to _run_analysis
StreamChunks ==
    {ChunkIssues, ChunkSearch, ChunkRootDict, ChunkRootNone, ChunkRootList,
     ChunkRootBad}

\* the external calls made so far: how many, how many of them raised, and
\* the final response the last ainvoke returned
NoCalls ==
    [stream |-> 0, invoke |-> 0, llm |-> 0, links |-> 0, stream_raised |-> 0,
     invoke_raised |-> 0, returned |-> None]

\* HTTPException(status_code, detail)
HTTPException(status, detail) ==
    [kind |-> "error", status |-> status, detail |-> detail]

\* not case_description or len(case_description.strip()) < 50
TooShortStrict(desc) == desc = "" \/ Len(Strip(desc)) <= MinCaseLength
TooShortOffByOne(desc) == desc = "" \/ Len(Strip(desc)) < MinCaseLength - 1
TooShort(desc) == desc = "" \/ Len(Strip(desc)) < MinCaseLength

\* the endpoint rejects the description: HTTP 400, raised through
\* "except HTTPException: raise"
Reject ==
    /\ run_pc = "validate"
    /\ TooShort(case_description)
    /\ responses' = Append(responses,
           HTTPException(400, "Case description must be at least 50 characters long"))
    /\ run_pc' = "done"
    /\ UNCHANGED <<case_description, final_response, calls, log_chunks,
                   thinking_steps, notRunVars>>

\* the endpoint calls _run_analysis, which starts astream_log
Accept ==
    /\ run_pc = "validate"
    /\ ~TooShort(case_description)
    /\ log_chunks' = <<>>
    /\ final_response' = None
    /\ calls' = [calls EXCEPT !.stream = @ + 1]
    /\ run_pc' = "stream"
    /\ UNCHANGED <<case_description, responses, thinking_steps, notRunVars>>

\* "Try to get final response from stream": the value the chunk leaves in
\* final_response
CaptureFinal(chunk, current) ==
    IF HasOpPathValue(chunk) /\ chunk.op = "replace" /\ chunk.path = ""
    THEN CASE chunk.value.kind = "dict" -> chunk.value.final
           [] chunk.value.kind = "list" -> chunk.value.final
           [] OTHER -> current
    ELSE current

\* one iteration of "async for chunk in langraph_app.astream_log(...)"
StreamChunk ==
    /\ run_pc = "stream"
    /\ Len(log_chunks) < MaxChunks
    /\ \E chunk \in StreamChunks :
          /\ log_chunks' = Append(log_chunks, chunk)
          /\ final_response' = CaptureFinal(chunk, final_response)
    /\ UNCHANGED <<case_description, run_pc, calls, responses, thinking_steps,
                   notRunVars>>

\* the stream ends: "if not final_response" decides on the fallback invoke
StreamEnd ==
    /\ run_pc = "stream"
    /\ run_pc' = IF Truthy(final_response) THEN "assemble" ELSE "fallback"
    /\ UNCHANGED <<case_description, final_response, calls, responses,
                   log_chunks, thinking_steps, notRunVars>>

\* astream_log raises: "except Exception" leads to the complete fallback
StreamRaise ==
    /\ run_pc = "stream"
    /\ calls' = [calls EXCEPT !.stream_raised = @ + 1]
    /\ run_pc' = "complete_fallback"
    /\ UNCHANGED <<case_description, final_response, responses,
                   log_chunks, thinking_steps, notRunVars>>

\* "Using fallback invoke method": ainvoke inside the try block; when it
\* raises, "except Exception" leads to the complete fallback
FallbackInvoke ==
    /\ run_pc = "fallback"
    /\ \/ \E name \in ResponseNames :
             /\ calls' = [calls EXCEPT !.invoke = @ + 1, !.returned = name]
             /\ final_response' = name
             /\ run_pc' = "assemble"
       \/ /\ calls' = [calls EXCEPT !.invoke = @ + 1, !.invoke_raised = @ + 1]
          /\ run_pc' = "complete_fallback"
          /\ UNCHANGED final_response
    /\ UNCHANGED <<case_description, responses, log_chunks, thinking_steps,
                   notRunVars>>

\* the handler would start over with the event stream
RetryAfterFallbackFailure == "stream"

\* "raise HTTPException(status_code=500, ...)" in the handler of the complete
\* fallback leaves _run_analysis: nothing is tried again
AfterFallbackFailure == "done"

\* the handler keeps the events collected from the stream
KeptLog(collected) == collected

\* "log_chunks = []" in the handler
DroppedLog(collected) == <<>>

\* "Complete fallback": ainvoke in the handler; on success the collected
\* events are dropped, on failure HTTP 500 is raised
CompleteFallback ==
    /\ run_pc = "complete_fallback"
    /\ \/ \E name \in ResponseNames :
             /\ calls' = [calls EXCEPT !.invoke = @ + 1, !.returned = name]
             /\ final_response' = name
             /\ log_chunks' = DroppedLog(log_chunks)
             /\ run_pc' = "assemble"
             /\ UNCHANGED responses
       \/ /\ calls' = [calls EXCEPT !.invoke = @ + 1, !.invoke_raised = @ + 1]
          /\ responses' = Append(responses,
                 HTTPException(500, "Analysis system is currently unavailable"))
          /\ run_pc' = AfterFallbackFailure
          /\ UNCHANGED <<final_response, log_chunks>>
    /\ UNCHANGED <<case_description, thinking_steps, notRunVars>>

\* min(a, b)
Min(a, b) == IF a < b THEN a ELSE b

\* the dict _run_analysis returns, as UnifiedAnalysisResponse(**result)
AnalysisResult(steps, answer, references, html_ok) ==
    [kind |-> "result", status |-> 200, thinking_steps |-> steps,
     final_answer |-> answer, references |-> references,
     formatted_by_model |-> html_ok, total_steps |-> Len(steps)]

\* the rest of _run_analysis and the endpoint's return: steps, references,
\* final answer, the HTML report (one model call, its failure is caught),
\* the link summaries (one fetch per reference, at most 5), and the
\* response model, which refuses a final answer that is not a string
Assemble ==
    /\ run_pc = "assemble"
    /\ LET response == ResponseOf(final_response)
           steps == extract_thinking_steps_from_log(log_chunks)
           references == extract_references(response)
           final_answer == FinalAnswer(response)
       IN  /\ thinking_steps' = steps
           /\ calls' = [calls EXCEPT
                  !.llm = @ + 1,
                  !.links = @ + Min(MaxLinks, Cardinality(references))]
           /\ \E html_ok \in BOOLEAN :
                 responses' = Append(responses,
                     IF final_answer = None
                     THEN HTTPException(500, "Analysis failed: validation error")
                     ELSE AnalysisResult(steps, final_answer, references, html_ok))
    /\ run_pc' = "done"
    /\ UNCHANGED <<case_description, final_response, log_chunks, notRunVars>>

(***************************************************************************)
(* The streaming submission: generate_thinking_stream, an async generator. *)
(* It runs between suspension points: a yield (the consumer holds the      *)
(* event and either asks for the next one or stops reading) and the await  *)
(* on the event source.                                                    *)
(***************************************************************************)
\* the node registry of generate_thinking_stream
stream_node_map ==
    [generate |-> <<"Initial Legal Analysis",
                    "Analyzing case facts and identifying key legal issues">>,
     critique |-> <<"Critical Review",
                    "Reviewing analysis for gaps and inconsistencies">>,
     websearch |-> <<"Legal Research",
                     "Searching for relevant laws and precedents">>,
     ReviseAnswer |-> <<"Final Synthesis",
                        "Incorporating research and finalizing opinion">>,
     AnswerQuestion |-> <<"Answer Formulation",
                          "Structuring comprehensive legal analysis">>,
     research |-> <<"Research Phase", "Conducting detailed legal research">>,
     analyze |-> <<"Legal Analysis", "Applying legal principles to case facts">>]

\* accumulated text longer than this is cut in a step_complete event
StreamDetailCap == 1200

\* content longer than this is sent as a thinking_update
UpdateMin == 50

\* content longer than this is cut in a thinking_update
UpdateCap == 600

\* the events astream_log delivers to the generator
GenChunks ==
    {ChunkIssues, ChunkPadded, ChunkSearch, ChunkLong, ChunkJson, ChunkBad,
     ChunkOther, ChunkShort}


\* the classes "except Exception" catches; GeneratorExit (the consumer
\* closed the generator) and CancelledError (its task was cancelled) derive
\* from BaseException
ExceptionsCaughtNone(exc) == FALSE
ExceptionsCaughtAll(exc) == TRUE
ExceptExceptionCatches(exc) == exc = "Exception"

SimpleEvent(type, message) == [type |-> type, message |-> message]

StepStart(number, entry) ==
    [type |-> "step_start", step_number |-> number, step_name |-> entry[1],
     description |-> entry[2]]

StepComplete(number, entry, details) ==
    [type |-> "step_complete", step_number |-> number, step_name |-> entry[1],
     description |-> entry[2], details |-> details]

ThinkingUpdate(content) == [type |-> "thinking_update", content |-> content]

GenInit == [step_counter |-> 1, current_node |-> None, accumulated_content |-> ""]

\* the yield suspension points inside the per-chunk try block
InnerYields == {"y_step_complete", "y_step_start", "y_update"}

\* the yield suspension points inside the outer try block only
OuterYields == {"y_invalid", "y_start", "y_final_complete", "y_complete"}

\* content and len(content) > 20 (the generator accepts content that
\* starts with a brace)
IsStreamContent(content) == content # "" /\ Len(content) > MinContent

\* what the generator does with a chunk: "raise" (handling it raises),
\* "skip", "flush" (new node, the previous step is completed first),
\* "start" (new node, nothing to complete), "update" or "quiet" (same node)
GenClassify(g, chunk) ==
    IF ~(HasOpPathValue(chunk) \/ IsDict(chunk)) THEN "skip"
    ELSE IF ~IsStreamedAdd(chunk) THEN "skip"
    ELSE IF StrRaises(chunk.value) THEN "raise"
    ELSE LET content == Strip(Str(chunk.value))
         IN  IF ~IsStreamContent(content) THEN "skip"
             ELSE IF ResolveNode(chunk.path, stream_node_map) # g.current_node
             THEN IF g.current_node # None /\ g.current_node # ""
                     /\ g.accumulated_content # ""
                  THEN "flush" ELSE "start"
             ELSE IF Len(content) > UpdateMin THEN "update" ELSE "quiet"

\* the new step starts with the number of the step before it
StartNodeSameNumber(g, chunk, counter) ==
    [step_counter |-> g.step_counter,
     current_node |-> ResolveNode(chunk.path, stream_node_map),
     accumulated_content |-> Strip(Str(chunk.value))]

\* "Start new step": the locals once the chunk's node is the current node
StartNode(g, chunk, counter) ==
    [step_counter |-> counter,
     current_node |-> ResolveNode(chunk.path, stream_node_map),
     accumulated_content |-> Strip(Str(chunk.value))]

\* the step_complete event of the current node
CompleteEvent(g, default) ==
    StepComplete(g.step_counter,
        NodeMapGet(stream_node_map, g.current_node, default),
        Truncate(g.accumulated_content, StreamDetailCap))

\* the step_start event of the current node
StartEvent(g) ==
    StepStart(g.step_counter,
        NodeMapGet(stream_node_map, g.current_node,
            <<"Step " \o g.current_node, "Processing...">>))

\* a yield: the consumer receives the event and the generator suspends at
\* pc; a yield after the consumer closed the generator is a RuntimeError
Yield(event, pc) ==
    IF consumer = "reading"
    THEN /\ events' = Append(events, event)
         /\ gen_pc' = pc
         /\ UNCHANGED fault
    ELSE /\ fault' = TRUE
         /\ gen_pc' = "closed"
         /\ UNCHANGED events

\* an exception reaches the outer handler, which yields the error event
\* when it catches it; otherwise the exception leaves the generator
OuterHandler(exc) ==
    IF ExceptExceptionCatches(exc)
    THEN Yield(SimpleEvent("error", "Analysis error"), "y_error")
    ELSE /\ gen_pc' = IF exc = "Exception" THEN "crashed" ELSE "closed"
         /\ fault' = (fault \/ exc = "Exception")
         /\ UNCHANGED events

\* the first request for an event: validation, then the start event
GenBegin ==
    /\ gen_pc = "created"
    /\ IF TooShort(case_description)
       THEN Yield(SimpleEvent("error",
                "Case description must be at least 50 characters long"), "y_invalid")
       ELSE Yield(SimpleEvent("start", "Legal analysis initiated..."), "y_start")
    /\ UNCHANGED <<gen, held, delivered, consumer, at_stop>>
    /\ UNCHANGED <<case_description, calls>>
    /\ UNCHANGED notGenVars

\* resumed after the start event: the locals are set and astream_log is
\* called
ResumeStart ==
    /\ gen_pc = "y_start"
    /\ consumer = "reading"
    /\ gen' = GenInit
    /\ calls' = [calls EXCEPT !.stream = @ + 1]
    /\ gen_pc' = "await"
    /\ UNCHANGED <<held, events, delivered, consumer, fault, at_stop>>
    /\ UNCHANGED case_description
    /\ UNCHANGED notGenVars

\* the event source delivers a chunk and the loop body handles it up to its
\* first yield, or to the next read when it yields nothing
SourceChunk ==
    /\ gen_pc = "await"
    /\ Len(delivered) < MaxChunks
    /\ \E chunk \in GenChunks :
          LET class == GenClassify(gen, chunk)
              content == Strip(Str(chunk.value))
              started == StartNode(gen, chunk, gen.step_counter)
              grown == [gen EXCEPT !.accumulated_content = @ \o "\n" \o content]
          IN  /\ delivered' = Append(delivered, chunk)
              /\ CASE class = "skip" ->
                        UNCHANGED <<gen, held, events, gen_pc, fault>>
                   [] class = "raise" ->
                        /\ UNCHANGED <<gen, held>>
                        /\ IF ExceptExceptionCatches("Exception")
                           THEN UNCHANGED <<events, gen_pc, fault>>
                           ELSE OuterHandler("Exception")
                   [] class = "flush" ->
                        /\ held' = chunk
                        /\ UNCHANGED gen
                        /\ Yield(CompleteEvent(gen, <<"Step " \o gen.current_node,
                                     "Processing...">>), "y_step_complete")
                   [] class = "start" ->
                        /\ gen' = started
                        /\ UNCHANGED held
                        /\ Yield(StartEvent(started), "y_step_start")
                   [] class = "update" ->
                        /\ gen' = grown
                        /\ UNCHANGED held
                        /\ Yield(ThinkingUpdate(Truncate(content, UpdateCap)),
                                 "y_update")
                   [] class = "quiet" ->
                        /\ gen' = grown
                        /\ UNCHANGED <<held, events, gen_pc, fault>>
    /\ UNCHANGED <<consumer, at_stop>>
    /\ UNCHANGED <<case_description, calls>>
    /\ UNCHANGED notGenVars

\* resumed after a step_complete inside the loop: the counter advances and
\* the new step starts
ResumeStepComplete ==
    /\ gen_pc = "y_step_complete"
    /\ consumer = "reading"
    /\ LET started == StartNode(gen, held, gen.step_counter + 1)
       IN  /\ gen' = started
           /\ Yield(StartEvent(started), "y_step_start")
    /\ held' = None
    /\ UNCHANGED <<delivered, consumer, at_stop>>
    /\ UNCHANGED <<case_description, calls>>
    /\ UNCHANGED notGenVars

\* resumed after a step_start or a thinking_update: back to the source
ResumeLoop ==
    /\ gen_pc \in {"y_step_start", "y_update"}
    /\ consumer = "reading"
    /\ gen_pc' = "await"
    /\ UNCHANGED <<gen, held, events, delivered, consumer, fault, at_stop>>
    /\ UNCHANGED <<case_description, calls>>
    /\ UNCHANGED notGenVars

\* the event source ends: "Send final step", or the complete event at once
SourceEnd ==
    /\ gen_pc = "await"
    /\ IF gen.current_node # None /\ gen.current_node # ""
          /\ gen.accumulated_content # ""
       THEN Yield(CompleteEvent(gen, <<"Final Analysis", "Completing analysis...">>),
                  "y_final_complete")
       ELSE Yield(SimpleEvent("complete", "Legal analysis completed successfully!"),
                  "y_complete")
    /\ UNCHANGED <<gen, held, delivered, consumer, at_stop>>
    /\ UNCHANGED <<case_description, calls>>
    /\ UNCHANGED notGenVars

\* resumed after the final step_complete: the complete event
ResumeFinalComplete ==
    /\ gen_pc = "y_final_complete"
    /\ consumer = "reading"
    /\ Yield(SimpleEvent("complete", "Legal analysis completed successfully!"),
             "y_complete")
    /\ UNCHANGED <<gen, held, delivered, consumer, at_stop>>
    /\ UNCHANGED <<case_description, calls>>
    /\ UNCHANGED notGenVars

\* resumed after the complete event or an error event: the generator ends
ResumeTerminal ==
    /\ gen_pc \in {"y_invalid", "y_complete", "y_error"}
    /\ consumer = "reading"
    /\ gen_pc' = "finished"
    /\ UNCHANGED <<gen, held, events, delivered, consumer, fault, at_stop>>
    /\ UNCHANGED <<case_description, calls>>
    /\ UNCHANGED notGenVars

\* the event source raises at the "async for", outside the per-chunk try
SourceRaise ==
    /\ gen_pc = "await"
    /\ OuterHandler("Exception")
    /\ UNCHANGED <<gen, held, delivered, consumer, at_stop>>
    /\ UNCHANGED <<case_description, calls>>
    /\ UNCHANGED notGenVars

\* the consumer stops reading: GeneratorExit is thrown at the yield the
\* generator is suspended at, CancelledError at its await.  A handler that
\* catches it inside the loop continues with the next chunk; the outer
\* handler that catches it yields the error event into a closed generator.
Cancel ==
    /\ consumer = "reading"
    /\ gen_pc \in InnerYields \cup OuterYields \cup {"y_error", "await"}
    /\ consumer' = "stopped"
    /\ at_stop' = [events |-> events, reads |-> Len(delivered)]
    /\ LET exc == IF gen_pc = "await" THEN "CancelledError" ELSE "GeneratorExit"
       IN  IF gen_pc # "y_error" /\ ExceptExceptionCatches(exc)
           THEN IF gen_pc \in InnerYields
                THEN /\ gen_pc' = "await"
                     /\ UNCHANGED fault
                ELSE /\ gen_pc' = "closed"
                     /\ fault' = TRUE
           ELSE /\ gen_pc' = "closed"
                /\ UNCHANGED fault
    /\ held' = None
    /\ UNCHANGED <<gen, events, delivered>>
    /\ UNCHANGED <<case_description, calls>>
    /\ UNCHANGED notGenVars

(***************************************************************************)
(* The tool executor: execute_tools(state).                                *)
(***************************************************************************)
QueryLimitation == "limitation period consumer complaint"
QueryDeposit == "security deposit refund tenant rights"
QueryForum == "district commission jurisdiction"

Queries == {QueryLimitation, QueryDeposit, QueryForum}

ToolCall(name, id, queries) ==
    [name |-> name, id |-> id, args |-> [search_queries |-> queries]]

\* the tool_calls of the last message of the state: none, one call of an
\* Actor schema with any list of queries, a call of another tool, two calls
ToolInputs ==
    {<<>>}
    \cup {<<ToolCall(name, "call_a", queries)>> :
             name \in ActorTools, queries \in SeqsUpTo(Queries, MaxQueries)}
    \cup {<<ToolCall("OtherTool", "call_o", <<QueryForum>>)>>}
    \cup {<<ToolCall("AnswerQuestion", "call_a", <<QueryDeposit>>),
            ToolCall("ReviseAnswer", "call_b", <<QueryForum, QueryDeposit>>)>>}


\* what tavily_tool.invoke(query) returns
SearchResult(query) == [results |-> "ranked results for " \o query]

\* {"error": f"Search failed: {str(e)}"}
SearchError(message) == [error |-> "Search failed: " \o message]

\* the exceptions a search call raises
SearchFailures == {"timed out", "HTTP 502"}

\* query_results[query] = entry
Put(mapping, key, entry) == (key :> entry) @@ mapping

\* the mapping {}
EmptyMapping == << >>

\* ToolMessage(content=json.dumps(query_results), tool_call_id=call_id);
\* the JSON text is kept as the mapping it encodes
ToolResultUntagged(tool_call, results) == ToolMessage(results, "")
ToolResultMessage(tool_call, results) == ToolMessage(results, tool_call.id)

\* the search queries of the current tool call
CurrentQueries == Get(tool_calls[call_index].args, "search_queries", <<>>)

\* "if not ... last_ai_message.tool_calls: return []", else the loop starts
ToolsEnter ==
    /\ tool_pc = "start"
    /\ tool_messages' = <<>>
    /\ call_index' = 1
    /\ tool_pc' = IF tool_calls = <<>> THEN "returned" ELSE "call"
    /\ UNCHANGED <<tool_calls, query_index, in_flight, query_results, outcomes>>
    /\ UNCHANGED notToolVars

\* the next tool call is one of the Actor schemas: its queries are taken
ToolsBeginCall ==
    /\ tool_pc = "call"
    /\ call_index <= Len(tool_calls)
    /\ tool_calls[call_index].name \in ActorTools
    /\ query_results' = EmptyMapping
    /\ query_index' = 1
    /\ tool_pc' = "queries"
    /\ UNCHANGED <<tool_calls, call_index, in_flight, tool_messages, outcomes>>
    /\ UNCHANGED notToolVars

\* the next tool call is of another tool: it is passed over
ToolsSkipCall ==
    /\ tool_pc = "call"
    /\ call_index <= Len(tool_calls)
    /\ tool_calls[call_index].name \notin ActorTools
    /\ call_index' = call_index + 1
    /\ UNCHANGED <<tool_calls, tool_pc, query_index, in_flight, query_results,
                   tool_messages, outcomes>>
    /\ UNCHANGED notToolVars

\* the loop stops at the first failing query
AbortAfterFailure(index, queries) == Len(queries) + 1

\* after "except Exception" the loop goes on with the next query
NextAfterFailure(index, queries) == index + 1

\* tavily_tool.invoke(query) is called; execute_tools waits for it
InvokeStart ==
    /\ tool_pc = "queries"
    /\ query_index <= Len(CurrentQueries)
    /\ in_flight' = in_flight \cup {query_index}
    /\ tool_pc' = "invoking"
    /\ UNCHANGED <<tool_calls, call_index, query_index, query_results,
                   tool_messages, outcomes>>
    /\ UNCHANGED notToolVars

\* the search call returns its result
InvokeReturn ==
    /\ tool_pc = "invoking"
    /\ LET query == CurrentQueries[query_index]
       IN  query_results' = Put(query_results, query, SearchResult(query))
    /\ outcomes' = Append(outcomes, <<call_index, query_index, "ok">>)
    /\ in_flight' = in_flight \ {query_index}
    /\ query_index' = query_index + 1
    /\ tool_pc' = "queries"
    /\ UNCHANGED <<tool_calls, call_index, tool_messages>>
    /\ UNCHANGED notToolVars

\* the search call raises (a timeout is one such exception): "except
\* Exception" records the inline error and the loop goes on
InvokeRaise ==
    /\ tool_pc = "invoking"
    /\ \E message \in SearchFailures :
          LET query == CurrentQueries[query_index]
          IN  IF ExceptExceptionCatches("Exception")
              THEN /\ query_results' = Put(query_results, query, SearchError(message))
                   /\ query_index' = NextAfterFailure(query_index, CurrentQueries)
                   /\ tool_pc' = "queries"
              ELSE /\ tool_pc' = "raised"
                   /\ UNCHANGED <<query_results, query_index>>
    /\ outcomes' = Append(outcomes, <<call_index, query_index, "raised">>)
    /\ in_flight' = in_flight \ {query_index}
    /\ UNCHANGED <<tool_calls, call_index, tool_messages>>
    /\ UNCHANGED notToolVars

\* every query of the tool call is done: its one ToolMessage is appended
ToolsAppend ==
    /\ tool_pc = "queries"
    /\ query_index > Len(CurrentQueries)
    /\ tool_messages' = Append(tool_messages,
           ToolResultMessage(tool_calls[call_index], query_results))
    /\ call_index' = call_index + 1
    /\ tool_pc' = "call"
    /\ UNCHANGED <<tool_calls, query_index, in_flight, query_results, outcomes>>
    /\ UNCHANGED notToolVars

\* "return tool_messages"
ToolsReturn ==
    /\ tool_pc = "call"
    /\ call_index > Len(tool_calls)
    /\ tool_pc' = "returned"
    /\ UNCHANGED <<tool_calls, call_index, query_index, in_flight, query_results,
                   tool_messages, outcomes>>
    /\ UNCHANGED notToolVars


(***************************************************************************)
(* Concurrent submissions.  Each call of _run_analysis is a coroutine and  *)
(* each call of generate_thinking_stream a generator; log_chunks,          *)
(* final_response, step_counter, current_node and accumulated_content are  *)
(* locals of the call.  A run advances from one suspension point to the    *)
(* next when the event source delivers a chunk, ends or raises, when the   *)
(* blocking invoke returns or raises, or when the consumer of the stream   *)
(* asks for the event after a step_complete.                               *)
(***************************************************************************)
Runs == {1, 2}

\* the frame that holds the locals of a run: one per call
ModuleLevelFrame(run) == 1
FrameOf(run) == run

\* no chunk is held, no chunk is delivered
NoChunk == ChunkOther

\* the locals at the first suspension point: _run_analysis at "async for",
\* generate_thinking_stream at "async for" after its start event
FreshFrame(kind) ==
    [kind |-> kind,
     pc |-> IF kind = "blocking" THEN "stream" ELSE "await",
     log_chunks |-> <<>>,
     final_response |-> None,
     gen |-> GenInit,
     held |-> NoChunk,
     out |-> IF kind = "blocking" THEN <<>>
             ELSE <<SimpleEvent("start", "Legal analysis initiated...")>>,
     outcome |-> None]

\* what is delivered to a run at a suspension point
ChunkInput(chunk) == [type |-> "chunk", chunk |-> chunk, final |-> None]
EndInput == [type |-> "end", chunk |-> NoChunk, final |-> None]
RaiseInput == [type |-> "raise", chunk |-> NoChunk, final |-> None]
ReturnInput(name) == [type |-> "return", chunk |-> NoChunk, final |-> name]
ResumeInput == [type |-> "resume", chunk |-> NoChunk, final |-> None]

\* the events astream_log delivers to a concurrent run
ConcurrentChunks == {ChunkIssues, ChunkSearch, ChunkRootDict}

\* the number of chunks among the inputs
ChunksIn(inputs) == Len(SelectSeq(inputs, LAMBDA input : input.type = "chunk"))

\* the inputs a run can get at its suspension point
InputsAt(frame, inputs) ==
    CASE frame.pc \in {"stream", "await"} ->
            {EndInput, RaiseInput}
            \cup (IF ChunksIn(inputs) < MaxConcurrentChunks
                  THEN {ChunkInput(chunk) : chunk \in ConcurrentChunks}
                  ELSE {})
      [] frame.pc \in {"fallback", "complete_fallback"} ->
            {RaiseInput, ReturnInput("revised"), ReturnInput("empty")}
      [] frame.pc = "y_step_complete" -> {ResumeInput}
      [] OTHER -> {}

\* _run_analysis leaves the try block with a final response: the Steps are
\* projected from the run's own log_chunks
FinishRun(frame) ==
    [frame EXCEPT
       !.pc = "done",
       !.out = extract_thinking_steps_from_log(frame.log_chunks),
       !.outcome = "result"]

\* _run_analysis from one await to the next
BlockingStep(frame, input) ==
    CASE frame.pc = "stream" /\ input.type = "chunk" ->
            [frame EXCEPT
               !.log_chunks = Append(@, input.chunk),
               !.final_response = CaptureFinal(input.chunk, @)]
      [] frame.pc = "stream" /\ input.type = "end" ->
            IF Truthy(frame.final_response) THEN FinishRun(frame)
            ELSE [frame EXCEPT !.pc = "fallback"]
      [] frame.pc = "stream" /\ input.type = "raise" ->
            [frame EXCEPT !.pc = "complete_fallback"]
      [] frame.pc = "fallback" /\ input.type = "return" ->
            FinishRun([frame EXCEPT !.final_response = input.final])
      [] frame.pc = "fallback" /\ input.type = "raise" ->
            [frame EXCEPT !.pc = "complete_fallback"]
      [] frame.pc = "complete_fallback" /\ input.type = "return" ->
            FinishRun([frame EXCEPT !.final_response = input.final,
                                    !.log_chunks = <<>>])
      [] frame.pc = "complete_fallback" /\ input.type = "raise" ->
            [frame EXCEPT !.pc = AfterFallbackFailure, !.outcome = "error"]
      [] OTHER -> frame

\* generate_thinking_stream from one read of the event source to the next,
\* or to the yield of a step_complete inside the loop
GeneratorStep(frame, input) ==
    CASE frame.pc = "await" /\ input.type = "chunk" ->
            LET g == frame.gen
                chunk == input.chunk
                class == GenClassify(g, chunk)
                content == Strip(Str(chunk.value))
                started == StartNode(g, chunk, g.step_counter)
                grown == [g EXCEPT !.accumulated_content = @ \o "\n" \o content]
            IN  CASE class = "flush" ->
                        [frame EXCEPT
                           !.held = chunk,
                           !.out = Append(@, CompleteEvent(g,
                                       <<"Step " \o g.current_node, "Processing...">>)),
                           !.pc = "y_step_complete"]
                  [] class = "start" ->
                        [frame EXCEPT !.gen = started,
                                      !.out = Append(@, StartEvent(started))]
                  [] class = "update" ->
                        [frame EXCEPT
                           !.gen = grown,
                           !.out = Append(@, ThinkingUpdate(Truncate(content, UpdateCap)))]
                  [] class = "quiet" -> [frame EXCEPT !.gen = grown]
                  [] OTHER -> frame
      [] frame.pc = "y_step_complete" /\ input.type = "resume" ->
            LET started == StartNode(frame.gen, frame.held,
                                     frame.gen.step_counter + 1)
            IN  [frame EXCEPT !.gen = started, !.held = NoChunk,
                              !.out = Append(@, StartEvent(started)),
                              !.pc = "await"]
      [] frame.pc = "await" /\ input.type = "end" ->
            LET g == frame.gen
                complete == SimpleEvent("complete",
                                "Legal analysis completed successfully!")
            IN  [frame EXCEPT
                   !.out = IF g.current_node # None /\ g.current_node # ""
                              /\ g.accumulated_content # ""
                           THEN @ \o <<CompleteEvent(g, <<"Final Analysis",
                                           "Completing analysis...">>), complete>>
                           ELSE Append(@, complete),
                   !.pc = "done",
                   !.outcome = "complete"]
      [] frame.pc = "await" /\ input.type = "raise" ->
            [frame EXCEPT
               !.out = Append(@, SimpleEvent("error", "Analysis error")),
               !.pc = "done",
               !.outcome = "error"]
      [] OTHER -> frame

RunStep(frame, input) ==
    IF frame.kind = "blocking" THEN BlockingStep(frame, input)
    ELSE GeneratorStep(frame, input)

\* one run advances from its suspension point; the other stays suspended
Deliver ==
    \E run \in Runs :
        \E input \in InputsAt(frames[run], fed[run]) :
            /\ frames' = [frames EXCEPT
                             ![FrameOf(run)] = RunStep(frames[FrameOf(run)], input)]
            /\ fed' = [fed EXCEPT ![run] = Append(@, input)]
            /\ UNCHANGED notConVars

(***************************************************************************)
(* extract_references called on a final response.  list(set(references))   *)
(* returns the elements of the set in an order the code does not           *)
(* determine.                                                              *)
(***************************************************************************)
\* the messages a final response is made of
RefMessages ==
    {HumanMessage("case"),
     ToolMessage(SearchResultText, "call_1"),
     AIMessage("The complaint lies under the Act; see " \o UrlCase, <<>>),
     AIMessage("", <<AnswerCall>>),
     AIMessage("", <<ReviseCall>>),
     AIMessage("Draft, see " \o UrlStatute, <<NamelessCall>>)}

\* the lists that hold each element of S once
Orderings(S) ==
    {order \in [1..Cardinality(S) -> S] :
        \A i, j \in 1..Cardinality(S) : order[i] = order[j] => i = j}

\* lists that hold some of the elements of S
ListOfAnyPart(S) == UNION {Orderings(T) : T \in SUBSET S}

\* list(set(references))
ListOfSet(S) == Orderings(S)

\* one call of extract_references(history); it reads the response and
\* assigns to none of its parts
Extract ==
    /\ Len(extracted) < 2
    /\ \E references \in ListOfSet(extract_references(history)) :
          extracted' = Append(extracted, references)
    /\ UNCHANGED history
    /\ UNCHANGED notRefVars

(***************************************************************************)
(* Specifications, one per component.  A component that does not run stays *)
(* idle.                                                                   *)
(***************************************************************************)
ProjIdle ==
    /\ proj = ProjInit
    /\ chunk_index = 1
    /\ proj_pc = "idle"

RunIdle ==
    /\ run_pc = "idle"
    /\ final_response = None
    /\ responses = <<>>

GenIdle ==
    /\ gen_pc = "idle"
    /\ gen = GenInit
    /\ held = None
    /\ events = <<>>
    /\ delivered = <<>>
    /\ consumer = "reading"
    /\ fault = FALSE
    /\ at_stop = [events |-> <<>>, reads |-> 0]

ConIdle ==
    /\ frames = <<>>
    /\ fed = <<>>

RefIdle ==
    /\ history = <<>>
    /\ extracted = <<>>

ToolsIdle ==
    /\ tool_calls = <<>>
    /\ tool_pc = "idle"
    /\ call_index = 1
    /\ query_index = 1
    /\ in_flight = {}
    /\ query_results = EmptyMapping
    /\ tool_messages = <<>>
    /\ outcomes = <<>>

\* extract_thinking_steps_from_log is called with a log
InitProjector ==
    /\ log_chunks \in SeqsUpTo(ProjChunks, MaxChunks)
    /\ thinking_steps = <<>>
    /\ proj = ProjInit
    /\ chunk_index = 1
    /\ proj_pc = "loop"
    /\ case_description = CaseEmpty
    /\ calls = NoCalls
    /\ RunIdle /\ GenIdle /\ ToolsIdle /\ ConIdle /\ RefIdle

NextProjector == ProjLoop \/ ProjFinal \/ ProjReturn

SpecProjector == InitProjector /\ [][NextProjector]_vars

\* a blocking endpoint is called with a case description
InitBlocking ==
    /\ case_description \in CaseInputs
    /\ run_pc = "validate"
    /\ final_response = None
    /\ calls = NoCalls
    /\ responses = <<>>
    /\ log_chunks = <<>>
    /\ thinking_steps = <<>>
    /\ ProjIdle /\ GenIdle /\ ToolsIdle /\ ConIdle /\ RefIdle

NextBlocking ==
    \/ Reject
    \/ Accept
    \/ StreamChunk
    \/ StreamEnd
    \/ StreamRaise
    \/ FallbackInvoke
    \/ CompleteFallback
    \/ Assemble

SpecBlocking == InitBlocking /\ [][NextBlocking]_vars

\* a submission that has not ended; in such a state a step of NextBlocking
\* is enabled
BlockingRunning == run_pc \notin {"idle", "done"}

\* weak fairness of NextBlocking, WF_vars(NextBlocking), with its enabling
\* condition written out as BlockingRunning: every call the coroutine awaits
\* delivers an event, returns or raises, and the event loop then resumes
\* the coroutine
SpecBlockingFair ==
    SpecBlocking /\ ([]<>(~BlockingRunning) \/ []<><<NextBlocking>>_vars)

\* the streaming endpoint is called with a case description
InitStream ==
    /\ case_description \in CaseInputs
    /\ calls = NoCalls
    /\ gen_pc = "created"
    /\ gen = GenInit
    /\ held = None
    /\ events = <<>>
    /\ delivered = <<>>
    /\ consumer = "reading"
    /\ fault = FALSE
    /\ at_stop = [events |-> <<>>, reads |-> 0]
    /\ log_chunks = <<>>
    /\ thinking_steps = <<>>
    /\ RunIdle /\ ProjIdle /\ ToolsIdle /\ ConIdle /\ RefIdle

NextStream ==
    \/ GenBegin
    \/ ResumeStart
    \/ SourceChunk
    \/ ResumeStepComplete
    \/ ResumeLoop
    \/ SourceEnd
    \/ ResumeFinalComplete
    \/ ResumeTerminal
    \/ SourceRaise
    \/ Cancel

SpecStream == InitStream /\ [][NextStream]_vars

\* any of the submission endpoints is called with a case description
InitSubmit == InitBlocking \/ InitStream

NextSubmit == NextBlocking \/ NextStream

SpecSubmit == InitSubmit /\ [][NextSubmit]_vars

\* execute_tools is called with a state whose last message carries
\* tool_calls
InitTools ==
    /\ tool_calls \in ToolInputs
    /\ tool_pc = "start"
    /\ call_index = 1
    /\ query_index = 1
    /\ in_flight = {}
    /\ query_results = EmptyMapping
    /\ tool_messages = <<>>
    /\ outcomes = <<>>
    /\ log_chunks = <<>>
    /\ thinking_steps = <<>>
    /\ case_description = CaseEmpty
    /\ calls = NoCalls
    /\ RunIdle /\ ProjIdle /\ GenIdle /\ ConIdle /\ RefIdle

NextTools ==
    \/ ToolsEnter
    \/ ToolsBeginCall
    \/ ToolsSkipCall
    \/ InvokeStart
    \/ InvokeReturn
    \/ InvokeRaise
    \/ ToolsAppend
    \/ ToolsReturn

SpecTools == InitTools /\ [][NextTools]_vars

\* two submissions are accepted and run concurrently, each by a blocking
\* endpoint or by the streaming endpoint
InitConcurrent ==
    /\ frames \in [Runs -> {FreshFrame("blocking"), FreshFrame("stream")}]
    /\ fed = [run \in Runs |-> <<>>]
    /\ log_chunks = <<>>
    /\ thinking_steps = <<>>
    /\ case_description = CaseEmpty
    /\ calls = NoCalls
    /\ RunIdle /\ ProjIdle /\ GenIdle /\ ToolsIdle /\ RefIdle

NextConcurrent == Deliver

SpecConcurrent == InitConcurrent /\ [][NextConcurrent]_vars

\* extract_references is called with a final response
InitReferences ==
    /\ history \in SeqsUpTo(RefMessages, MaxMessages)
    /\ extracted = <<>>
    /\ log_chunks = <<>>
    /\ thinking_steps = <<>>
    /\ case_description = CaseEmpty
    /\ calls = NoCalls
    /\ RunIdle /\ ProjIdle /\ GenIdle /\ ToolsIdle /\ ConIdle

NextReferences == Extract

SpecReferences == InitReferences /\ [][NextReferences]_vars

\* every component
Init == InitProjector \/ InitBlocking \/ InitStream \/ InitTools
        \/ InitConcurrent \/ InitReferences

Next == NextProjector \/ NextBlocking \/ NextStream \/ NextTools
        \/ NextConcurrent \/ NextReferences

Spec == Init /\ [][Next]_vars

(***************************************************************************)
(* Properties.                                                             *)
(***************************************************************************)
\* the last element of a non-empty sequence
Last(seq) == seq[Len(seq)]

\* a blocking submission ended with one outcome of a run that was started:
\* a result, or a failure of the run (HTTP 500)
OneRunOutcome ==
    /\ Len(responses) = 1
    /\ calls.stream >= 1
    /\ \/ responses[1].kind = "result"
       \/ responses[1].kind = "error" /\ responses[1].status = 500

\* C1, as stated: every case description of 50 characters or more, whatever
\* its whitespace, ends a blocking submission with exactly one outcome, a
\* WorkflowResult or a WorkflowError of a run that was started.
C1_AnyWhitespace ==
    (run_pc = "done" /\ Len(case_description) >= 50) => OneRunOutcome

\* C1, amended: every case description that has 50 characters or more after
\* its leading and trailing whitespace is stripped ends a blocking
\* submission with exactly one outcome, a WorkflowResult or a WorkflowError
\* of a run that was started; no outcome exists before the submission ends.
C1_OneOutcome ==
    /\ (run_pc = "done" /\ Len(Strip(case_description)) >= 50) => OneRunOutcome
    /\ run_pc \notin {"idle", "done"} => responses = <<>>

\* a padded description of 50 stripped characters or more got its result
C1_Witness ==
    /\ run_pc = "done"
    /\ case_description = CasePadded
    /\ Len(responses) = 1
    /\ responses[1].kind = "result"
    /\ calls.invoke = 2

\* C2: a case description shorter than 50 characters is rejected before
\* any external call: no call to the workflow stream, the workflow invoke,
\* the model or the link fetcher is ever made; a blocking endpoint ends with
\* HTTP 400 as its only outcome; the streaming endpoint emits one error
\* event as its only event, without a start event.
C2_ShortRejected ==
    Len(case_description) < 50 =>
        /\ calls = NoCalls
        /\ run_pc \in {"idle", "validate", "done"}
        /\ run_pc = "done" =>
              /\ Len(responses) = 1
              /\ responses[1].kind = "error"
              /\ responses[1].status = 400
        /\ gen_pc \in {"idle", "created", "y_invalid", "finished", "closed"}
        /\ gen_pc \notin {"idle", "created"} =>
              /\ Len(events) = 1
              /\ events[1].type = "error"

\* a description of 49 characters was rejected by a blocking endpoint
C2_Witness ==
    /\ case_description = Case49
    /\ run_pc = "done"
    /\ responses[1].status = 400

TerminalEvent(event) == event.type \in {"complete", "error"}

\* C3: a streaming submission read to its end has exactly one terminal
\* event (complete or error) and it is the last event, whether the event
\* source ends normally, raises at any point, or the handling of a single
\* event raises; before the end no event follows a terminal event.
C3_OneTerminalLast ==
    /\ \A i \in 1..Len(events) : TerminalEvent(events[i]) => i = Len(events)
    /\ gen_pc \in {"finished", "crashed"} =>
          /\ events # <<>>
          /\ TerminalEvent(Last(events))

\* the source raised after a step had started and after the handling of an
\* event had raised; the stream was read to its end
C3_Witness ==
    /\ gen_pc = "finished"
    /\ Last(events).type = "error"
    /\ \E i \in 1..Len(events) : events[i].type = "step_start"
    /\ \E i \in 1..Len(delivered) : delivered[i] = ChunkBad

\* a content event of the projector: an add on a streamed-output path whose
\* stripped text has more than 20 characters and does not start with a brace
IsContentChunk(chunk) ==
    /\ chunk.shape \in {"obj", "dict"}
    /\ chunk.op = "add"
    /\ \E keyword \in PathKeywords : Contains(chunk.path, keyword)
    /\ chunk.value.kind # "bad"
    /\ LET text == Strip(chunk.value.text)
       IN  Len(text) > 20 /\ ~StartsWith(text, "{")

\* the node a content event resolves to
NodeOfChunk(chunk) == ResolveNode(chunk.path, node_map)

\* the stripped texts of chunks[from..to], one after the other
RECURSIVE JoinTexts(_, _, _, _)
JoinTexts(chunks, from, to, sep) ==
    IF from > to THEN ""
    ELSE Strip(chunks[from].value.text) \o sep \o JoinTexts(chunks, from + 1, to, sep)

\* chunks is m >= 1 content events of one node, then n >= 1 content events
\* of another node, and m is the split
TwoNodeLog(chunks, m) ==
    /\ m \in 1..(Len(chunks) - 1)
    /\ \A i \in 1..Len(chunks) : IsContentChunk(chunks[i])
    /\ \A i \in 1..m : NodeOfChunk(chunks[i]) = NodeOfChunk(chunks[1])
    /\ \A i \in (m + 1)..Len(chunks) :
          NodeOfChunk(chunks[i]) = NodeOfChunk(chunks[m + 1])
    /\ NodeOfChunk(chunks[1]) # NodeOfChunk(chunks[m + 1])

\* text cut to its first 1000 characters and "..." when it is longer
CutDetail(text) ==
    IF Len(text) > 1000 THEN SubSeq(text, 1, 1000) \o "..." ELSE text

\* the two Steps of a two-node log, given the detail text of each
TwoSteps(chunks, m, detailA, detailB) ==
    << [step_number |-> 1,
        step_name |-> node_map[NodeOfChunk(chunks[1])][1],
        description |-> node_map[NodeOfChunk(chunks[1])][2],
        details |-> detailA],
       [step_number |-> 2,
        step_name |-> node_map[NodeOfChunk(chunks[m + 1])][1],
        description |-> node_map[NodeOfChunk(chunks[m + 1])][2],
        details |-> detailB] >>

\* C4, as stated: for m content events of node A followed by n content
\* events of another node B, the projector returns exactly two Steps,
\* numbered 1 and 2, with A's and B's registry titles, whose details are the
\* in-order concatenations of the m texts and of the n texts.
C4_PlainConcatenation ==
    proj_pc = "returned" =>
        \A m \in 1..Len(log_chunks) :
            TwoNodeLog(log_chunks, m) =>
                thinking_steps =
                    TwoSteps(log_chunks, m,
                        JoinTexts(log_chunks, 1, m, ""),
                        JoinTexts(log_chunks, m + 1, Len(log_chunks), ""))

\* C4, amended: for m content events of node A followed by n content events
\* of another node B, the projector returns exactly two Steps, numbered 1
\* and 2, with A's and B's registry titles; the detail of each is its
\* events' stripped texts in order, each followed by a newline, cut to its
\* first 1000 characters and "..." when it is longer than 1000 characters.
C4_TwoNodes ==
    proj_pc = "returned" =>
        \A m \in 1..Len(log_chunks) :
            TwoNodeLog(log_chunks, m) =>
                thinking_steps =
                    TwoSteps(log_chunks, m,
                        CutDetail(JoinTexts(log_chunks, 1, m, "\n")),
                        CutDetail(JoinTexts(log_chunks, m + 1, Len(log_chunks), "\n")))

\* two content events of one node, then one of another, were projected
C4_Witness ==
    /\ proj_pc = "returned"
    /\ Len(log_chunks) = 3
    /\ TwoNodeLog(log_chunks, 2)
    /\ log_chunks[1] # log_chunks[2]

\* C5: the projector never returns an empty list; for a log without any
\* content event (empty, or only skipped or malformed events) it returns
\* the fixed default sequence of 5 Steps, numbered 1 to 5.
C5_NeverEmpty ==
    proj_pc = "returned" =>
        /\ thinking_steps # <<>>
        /\ SelectSeq(log_chunks, IsContentChunk) = <<>> =>
              /\ Len(thinking_steps) = 5
              /\ \A i \in 1..5 : thinking_steps[i].step_number = i
              /\ thinking_steps[1].step_name = "Case Analysis Initiated"
              /\ thinking_steps[5].step_name = "Final Opinion and Recommendations"

\* a log of three events, none of them a content event, was projected
C5_Witness ==
    /\ proj_pc = "returned"
    /\ Len(log_chunks) = 3
    /\ SelectSeq(log_chunks, IsContentChunk) = <<>>
    /\ Len(thinking_steps) = 5

\* C6: an add-type content event whose value is an error object with
\* message m appears in the detail of a Step as "Error: " followed by m.
C6_ErrorRendered ==
    proj_pc = "returned" =>
        \A i \in 1..Len(log_chunks) :
            (IsContentChunk(log_chunks[i]) /\ log_chunks[i].value.kind = "error") =>
                \E k \in 1..Len(thinking_steps) :
                    Contains(thinking_steps[k].details,
                             "Error: " \o log_chunks[i].value.text)

\* the tool calls execute_tools answers: those of an Actor schema
AnsweredCalls == {ci \in 1..Len(tool_calls) : tool_calls[ci].name \in ActorTools}

\* the search queries of tool call ci
QueriesOf(ci) == tool_calls[ci].args.search_queries

\* the ToolMessage of tool call ci: messages are appended in call order
MessageOf(ci) == tool_messages[Cardinality({cj \in AnsweredCalls : cj <= ci})]

\* the search call for query position qi of tool call ci ended with how
EndedWith(ci, qi, how) == \E k \in 1..Len(outcomes) : outcomes[k] = <<ci, qi, how>>

\* the last position of tool call ci that holds the same query as qi
LastOf(ci, qi) ==
    CHOOSE last \in 1..Len(QueriesOf(ci)) :
        /\ QueriesOf(ci)[last] = QueriesOf(ci)[qi]
        /\ \A other \in (last + 1)..Len(QueriesOf(ci)) :
              QueriesOf(ci)[other] # QueriesOf(ci)[qi]

\* the entry of the ToolResult of call ci for the query at position qi shows
\* the outcome of the search call made for position at
ShowsOutcome(ci, qi, at) ==
    LET query == QueriesOf(ci)[qi]
        content == MessageOf(ci).content
    IN  /\ query \in DOMAIN content
        /\ EndedWith(ci, at, "ok") => content[query] = SearchResult(query)
        /\ EndedWith(ci, at, "raised") =>
              /\ DOMAIN content[query] = {"error"}
              /\ StartsWith(content[query].error, "Search failed: ")

\* the search call of every query of every answered tool call was made
AllExecuted ==
    \A ci \in AnsweredCalls : \A qi \in 1..Len(QueriesOf(ci)) :
        EndedWith(ci, qi, "ok") \/ EndedWith(ci, qi, "raised")

\* C7, as stated: for any list of queries and any subset of failing search
\* calls, the executor does not raise, every query is executed, every
\* non-failing query has its search result in the ToolResult under its
\* query string and every failing query has an inline error entry under its
\* query string.
C7_EveryQueryHasItsEntry ==
    /\ tool_pc # "raised"
    /\ tool_pc = "returned" =>
          /\ AllExecuted
          /\ \A ci \in AnsweredCalls : \A qi \in 1..Len(QueriesOf(ci)) :
                ShowsOutcome(ci, qi, qi)

\* C7, amended: for any list of queries and any subset of failing search
\* calls, the executor does not raise and every query is executed whatever
\* the outcome of the others; the ToolResult has exactly one entry per
\* distinct query string, which shows the outcome of the last search call
\* made for that string: its search result, or an inline error.  For
\* pairwise distinct queries that is the outcome of each query's own call.
C7_FailuresStayInline ==
    /\ tool_pc # "raised"
    /\ tool_pc = "returned" =>
          /\ AllExecuted
          /\ \A ci \in AnsweredCalls :
                /\ DOMAIN MessageOf(ci).content = Range(QueriesOf(ci))
                /\ \A qi \in 1..Len(QueriesOf(ci)) :
                      ShowsOutcome(ci, qi, LastOf(ci, qi))

\* three distinct queries, the second failed, the first and third succeeded
C7_Witness ==
    /\ tool_pc = "returned"
    /\ Len(tool_calls) = 1
    /\ outcomes = << <<1, 1, "ok">>, <<1, 2, "raised">>, <<1, 3, "ok">> >>
    /\ Cardinality(Range(QueriesOf(1))) = 3

\* C8: a run of the executor triggered by one ToolInvocation (the last
\* message carries exactly one tool call, of an Actor schema) returns
\* exactly one ToolResult message, tagged with that call's identifier,
\* whatever the number of queries and whichever of them fail; the executor
\* never holds more than that one message.
C8_OneTaggedMessage ==
    (Len(tool_calls) = 1 /\ AnsweredCalls = {1}) =>
        /\ tool_pc # "raised"
        /\ Len(tool_messages) <= 1
        /\ tool_pc = "returned" =>
              /\ Len(tool_messages) = 1
              /\ tool_messages[1].type = "tool"
              /\ tool_messages[1].tool_call_id = tool_calls[1].id

\* one tool call with three queries, some failing and some not, returned
C8_Witness ==
    /\ tool_pc = "returned"
    /\ Len(tool_calls) = 1
    /\ AnsweredCalls = {1}
    /\ Len(tool_messages) = 1
    /\ Len(outcomes) = 3
    /\ \E k \in 1..3 : outcomes[k][3] = "raised"
    /\ \E k \in 1..3 : outcomes[k][3] = "ok"

\* C9: the search calls of one run are concurrent: while the call for a
\* query is in flight and a later query has not been started, the call for
\* the later query can start; and at most 3 calls are in flight at once.
C9_ConcurrentFanOut ==
    /\ Cardinality(in_flight) <= 3
    /\ (in_flight # {} /\ query_index < Len(CurrentQueries)) => ENABLED InvokeStart

\* C10: once the consumer has stopped reading, the generator is closed: it
\* reads no further event from the event source, the consumer's events are
\* those it had when it stopped, and no exception left the generator.
C10_StopIsQuiet ==
    consumer = "stopped" =>
        /\ gen_pc = "closed"
        /\ ~fault
        /\ events = at_stop.events
        /\ Len(delivered) = at_stop.reads

\* the consumer stopped right after a step_start while the source had more
\* events to deliver
C10_Witness ==
    /\ consumer = "stopped"
    /\ events # <<>>
    /\ Last(events).type = "step_start"
    /\ Len(delivered) = 1

\* every workflow execution of the submission failed: each blocking invoke
\* raised, after the event stream had raised or ended without a final result
EveryAttemptFailed ==
    /\ calls.invoke >= 1
    /\ calls.invoke_raised = calls.invoke

\* C11: in a blocking submission the workflow is executed at most 3 times
\* (the event stream once, the blocking invoke at most twice), whatever
\* fails; when every execution failed the submission ends with one HTTP 500
\* and no result; and every submission that was started ends.
C11_BoundedAttempts ==
    /\ [](/\ calls.stream <= 1
          /\ calls.invoke <= 2
          /\ calls.stream + calls.invoke <= 3
          /\ (run_pc = "done" /\ EveryAttemptFailed) =>
                /\ Len(responses) = 1
                /\ responses[1].kind = "error"
                /\ responses[1].status = 500)
    /\ <>(run_pc = "done")

\* the stream ended without a final result, both blocking invokes raised,
\* and the submission ended with HTTP 500
C11_Witness ==
    /\ run_pc = "done"
    /\ calls.stream = 1
    /\ calls.stream_raised = 0
    /\ calls.invoke = 2
    /\ calls.invoke_raised = 2
    /\ log_chunks # <<>>
    /\ responses[1].status = 500

\* C12: in one submission the blocking invoke is called at most once, and
\* the handler that calls it is never reached after the event stream has
\* delivered a final result.
C12_SingleInvoke ==
    /\ calls.invoke <= 1
    /\ ~(run_pc = "complete_fallback" /\ calls.invoke = 0
         /\ Truthy(final_response))

\* the frame of a run that gets the inputs alone, one after the other
RECURSIVE Alone(_, _)
Alone(frame, inputs) ==
    IF inputs = <<>> THEN frame
    ELSE Alone(RunStep(frame, Head(inputs)), Tail(inputs))

\* C13: for two submissions run concurrently, in every interleaving of
\* their suspension points, the trace buffer, the final response, the current
\* node, the accumulator, the step counter, the Steps or events and the
\* outcome of each run are what the run has when it gets the same inputs
\* alone.
C13_RunIsolation ==
    frames # <<>> =>
        \A run \in Runs :
            frames[run] = Alone(FreshFrame(frames[run].kind), fed[run])

\* a blocking run failed (the stream and the blocking invoke raised) while a
\* streaming run, interleaved with it, completed a step and its stream
C13_Witness ==
    /\ frames # <<>>
    /\ frames[1].kind = "blocking"
    /\ frames[1].outcome = "error"
    /\ frames[2].kind = "stream"
    /\ frames[2].outcome = "complete"
    /\ Len(frames[2].out) >= 4
    /\ fed[1][1].type = "chunk"
    /\ fed[2][1].type = "chunk"

\* a string that begins with an HTTP(S) scheme
HasHttpScheme(ref) == StartsWith(ref, "http://") \/ StartsWith(ref, "https://")

\* the references field of the final tool invocation of a response
FinalInvocationRefs(response) ==
    IF response # <<>> /\ HasToolCalls(Last(response))
    THEN LET invocation == Last(response).tool_calls[1]
         IN  IF "args" \in DOMAIN invocation
                /\ "references" \in DOMAIN invocation.args
             THEN Range(invocation.args.references)
             ELSE {}
    ELSE {}

\* the URL-shaped substrings of the content of every message
UrlsInContent(response) ==
    UNION {Range(FindUrls(response[i].content)) : i \in DOMAIN response}

\* C14: the list extract_references returns holds no element twice, and
\* its elements are exactly the strings of the final tool invocation's
\* references field that begin with an HTTP(S) scheme together with every
\* URL-shaped substring of the content of every message.
C14_ExactUnion ==
    \A k \in 1..Len(extracted) :
        /\ Cardinality(Range(extracted[k])) = Len(extracted[k])
        /\ Range(extracted[k]) =
              {ref \in FinalInvocationRefs(history) : HasHttpScheme(ref)}
              \cup UrlsInContent(history)

\* C15: every returned reference that is not a URL found in the content of
\* a message begins with "http://" or "https://", and every string of the
\* final tool invocation's references field that begins with one of these is
\* returned.
C15_SchemeOnly ==
    \A k \in 1..Len(extracted) :
        /\ \A ref \in Range(extracted[k]) :
              ref \in UrlsInContent(history) \/ HasHttpScheme(ref)
        /\ \A ref \in FinalInvocationRefs(history) :
              HasHttpScheme(ref) => ref \in Range(extracted[k])

\* C16: every URL-shaped substring of the content of any message is
\* returned, whatever the final message carries: no tool invocation, one
\* with or without references, or a malformed one.
C16_ContentUrlsAlways ==
    \A k \in 1..Len(extracted) :
        UrlsInContent(history) \subseteq Range(extracted[k])

ContentLog == SelectSeq(log_chunks, IsContentChunk)

\* the Step of a node with a number and a detail text
StepOf(number, node, detail) ==
    [step_number |-> number,
     step_name |-> node_map[node][1],
     description |-> node_map[node][2],
     details |-> detail]

\* chunks is m >= 1 content events of node A, then content events of another
\* node B up to position n, then content events of node A again
ThreeVisits(chunks, m, n) ==
    /\ 1 <= m /\ m < n /\ n < Len(chunks)
    /\ \A i \in 1..m : NodeOfChunk(chunks[i]) = NodeOfChunk(chunks[1])
    /\ \A i \in (m + 1)..n : NodeOfChunk(chunks[i]) = NodeOfChunk(chunks[m + 1])
    /\ \A i \in (n + 1)..Len(chunks) : NodeOfChunk(chunks[i]) = NodeOfChunk(chunks[1])
    /\ NodeOfChunk(chunks[1]) # NodeOfChunk(chunks[m + 1])

\* C18: for content events of node A, then of node B, then of node A again,
\* the projector returns three Steps, A, B, A, numbered 1, 2, 3; the detail
\* of the third holds the texts of the second visit of A only (each followed
\* by a newline, cut at 1000 characters), as the first holds those of the
\* first visit.
C18_VisitsNotMerged ==
    proj_pc = "returned" =>
        \A m, n \in 1..Len(ContentLog) :
            ThreeVisits(ContentLog, m, n) =>
                thinking_steps =
                    << StepOf(1, NodeOfChunk(ContentLog[1]),
                           CutDetail(JoinTexts(ContentLog, 1, m, "\n"))),
                       StepOf(2, NodeOfChunk(ContentLog[m + 1]),
                           CutDetail(JoinTexts(ContentLog, m + 1, n, "\n"))),
                       StepOf(3, NodeOfChunk(ContentLog[1]),
                           CutDetail(JoinTexts(ContentLog, n + 1,
                                               Len(ContentLog), "\n"))) >>

\* a log of node generate, then websearch, then generate with another text
\* was projected
C18_Witness ==
    /\ proj_pc = "returned"
    /\ log_chunks = <<ChunkIssues, ChunkSearch, ChunkPadded>>
    /\ Len(thinking_steps) = 3
    /\ thinking_steps[3].details = "Reviewing statutes and precedent.\n"

\* C19: events that are malformed, whose handling raises, or that are not
\* add-type content events have no effect: after each event of the loop the
\* projector's locals are what the content events read so far alone give,
\* and the Steps returned are those returned for the content events alone.
C19_SkippedWithoutEffect ==
    /\ proj_pc = "loop" =>
          proj = ProcessChunks(ProjInit,
                     SelectSeq(SubSeq(log_chunks, 1, chunk_index - 1),
                               IsContentChunk))
    /\ proj_pc = "returned" =>
          thinking_steps = extract_thinking_steps_from_log(ContentLog)

\* a log with an event whose handling raises and a malformed event around a
\* content event was projected to one Step
C19_Witness ==
    /\ proj_pc = "returned"
    /\ log_chunks = <<ChunkBad, ChunkIssues, ChunkOther>>
    /\ Len(thinking_steps) = 1
    /\ thinking_steps[1].details = TextIssues \o "\n"

\* the path has no segment that names a node of the registry
Unresolved(path) ==
    LET parts == Split(path, "/")
    IN  ~\E i \in DOMAIN parts :
            /\ Contains(parts[i], ":")
            /\ Split(parts[i], ":")[1] \in DOMAIN node_map

\* the node the code attributes an unresolved content event to
FallbackNode == "analyze"

\* text occurs in detail
Appears(text, detail) == \E i \in 1..Len(detail) : MatchAt(detail, i, text)

\* the first and the last position of the visit of one node that position j
\* of chunks belongs to
VisitStart(chunks, j) ==
    CHOOSE lo \in 1..j :
        /\ \A i \in lo..j : NodeOfChunk(chunks[i]) = NodeOfChunk(chunks[j])
        /\ lo > 1 => NodeOfChunk(chunks[lo - 1]) # NodeOfChunk(chunks[j])

VisitEnd(chunks, j) ==
    CHOOSE hi \in j..Len(chunks) :
        /\ \A i \in j..hi : NodeOfChunk(chunks[i]) = NodeOfChunk(chunks[j])
        /\ hi < Len(chunks) => NodeOfChunk(chunks[hi + 1]) # NodeOfChunk(chunks[j])

\* the number of the Step of the visit that starts at position lo
VisitNumber(chunks, lo) ==
    1 + Cardinality({i \in 2..lo : NodeOfChunk(chunks[i]) # NodeOfChunk(chunks[i - 1])})

\* C20, as stated: the text of every content event whose path names no
\* registry node appears in the detail of a Step of the fallback node.
C20_TextAppears ==
    proj_pc = "returned" =>
        \A j \in 1..Len(ContentLog) :
            Unresolved(ContentLog[j].path) =>
                \E k \in 1..Len(thinking_steps) :
                    /\ thinking_steps[k].step_name = node_map[FallbackNode][1]
                    /\ Appears(Strip(ContentLog[j].value.text),
                               thinking_steps[k].details)

\* C20, amended: a content event whose path names no registry node is
\* attributed to the fallback node "analyze": its text, followed by a
\* newline, is part of the accumulated text of the visit of that node it
\* belongs to, and the Step of that visit carries the fallback node's title
\* and that accumulated text cut to its first 1000 characters and "..."
\* when it is longer than 1000 characters.
C20_FallbackNode ==
    proj_pc = "returned" =>
        \A j \in 1..Len(ContentLog) :
            Unresolved(ContentLog[j].path) =>
                LET lo == VisitStart(ContentLog, j)
                    hi == VisitEnd(ContentLog, j)
                    k == VisitNumber(ContentLog, lo)
                IN  /\ NodeOfChunk(ContentLog[j]) = FallbackNode
                    /\ k <= Len(thinking_steps)
                    /\ thinking_steps[k] =
                          StepOf(k, FallbackNode,
                              CutDetail(JoinTexts(ContentLog, lo, hi, "\n")))

\* an unresolved content event after a visit of another node was projected
\* to the second Step, and its text is in that Step's detail
C20_Witness ==
    /\ proj_pc = "returned"
    /\ log_chunks = <<ChunkSearch, ChunkLongUnresolved, ChunkApply>>
    /\ Len(thinking_steps) = 2
    /\ thinking_steps[2].step_name = "Legal Analysis"
    /\ Appears(TextApply, thinking_steps[2].details)

\* a Step was appended to the list by this step of the projector's loop
StepFlushed ==
    /\ proj_pc = "loop"
    /\ Len(proj'.steps) = Len(proj.steps) + 1

\* C21: the detail of a Step flushed from events is the accumulated text
\* when that has at most 1000 characters, and otherwise its first 1000
\* characters followed by "..."; no detail of any Step is longer than 1003
\* characters.
C21_DetailBounded ==
    /\ [](\A i \in 1..Len(proj.steps) : Len(proj.steps[i].details) <= 1003)
    /\ [](\A i \in 1..Len(thinking_steps) :
             Len(thinking_steps[i].details) <= 1003)
    /\ [][StepFlushed =>
             LET text == proj.accumulated_content
                 detail == proj'.steps[Len(proj'.steps)].details
             IN  IF Len(text) <= 1000 THEN detail = text
                 ELSE detail = SubSeq(text, 1, 1000) \o "..."]_vars

\* three events of 499 characters each of one node were projected: the
\* first two accumulate to exactly 1000 characters, the three to 1500, and
\* the Step returned has a detail of 1003 characters
C21_Witness ==
    /\ proj_pc = "returned"
    /\ log_chunks = <<ChunkLongUnresolved, ChunkLongUnresolved, ChunkLongUnresolved>>
    /\ Len(thinking_steps) = 1
    /\ Len(thinking_steps[1].details) = 1003

\* a step of a projection keeps the Steps flushed so far, appends at most
\* one, and returns the list as it is when it is not empty
KeepsFlushedSteps ==
    proj_pc \in {"loop", "defaults"} =>
        /\ Len(proj'.steps) >= Len(proj.steps)
        /\ SubSeq(proj'.steps, 1, Len(proj.steps)) = proj.steps
        /\ proj_pc = "loop" => Len(proj'.steps) <= Len(proj.steps) + 1
        /\ (proj_pc' = "returned" /\ proj.steps # <<>>) =>
               /\ thinking_steps' = proj.steps
               /\ proj'.steps = proj.steps

\* C22: a Step is never mutated after being flushed: on every step of a
\* projection the step list keeps the Steps it had, unchanged and at the
\* same positions, and at most one Step is appended; the result returned
\* when at least one Step was flushed is that list.
C22_FlushedStepsKept == [][KeepsFlushedSteps]_vars

\* two Steps were flushed in the loop and a third at the end, and the three
\* were returned
C22_Witness ==
    /\ proj_pc = "returned"
    /\ log_chunks = <<ChunkApply, ChunkSearch, ChunkLong>>
    /\ Len(thinking_steps) = 3
    /\ thinking_steps[1].details = TextApply \o "\n"
    /\ thinking_steps = proj.steps

\* the node whose registry title a Step carries
NodesTitled(title) == {node \in DOMAIN node_map : node_map[node][1] = title}

\* C28: the Steps returned are numbered 1, 2, ..., n in list order, and any
\* two adjacent Steps flushed from events belong to different nodes; a Step
\* is appended only with a non-empty accumulator, in the loop only by an
\* event of another node than the current one.
C28_NumberedAndAlternating ==
    /\ [](proj_pc = "returned" =>
             /\ \A i \in 1..Len(thinking_steps) :
                    thinking_steps[i].step_number = i
             /\ ContentLog # <<>> =>
                    \A i \in 1..(Len(thinking_steps) - 1) :
                        /\ thinking_steps[i].step_name # thinking_steps[i + 1].step_name
                        /\ NodesTitled(thinking_steps[i].step_name)
                               # NodesTitled(thinking_steps[i + 1].step_name))
    /\ [][StepFlushed =>
             /\ proj.accumulated_content # ""
             /\ proj'.steps[Len(proj'.steps)].step_name = node_map[proj.current_node][1]
             /\ chunk_index <= Len(log_chunks) =>
                    /\ IsContentChunk(log_chunks[chunk_index])
                    /\ NodeOfChunk(log_chunks[chunk_index]) # proj.current_node]_vars

\* a log that visits one node, another, and the first again was projected
\* to Steps 1, 2, 3, the first and the third of the same node
C28_Witness ==
    /\ proj_pc = "returned"
    /\ log_chunks = <<ChunkIssues, ChunkLong, ChunkPadded>>
    /\ Len(thinking_steps) = 3
    /\ thinking_steps[3].step_number = 3
    /\ thinking_steps[1].step_name = thinking_steps[3].step_name

\* an add-type event on a streamed-output path whose stripped text is empty,
\* has 20 characters or fewer, or begins with a brace
FilteredAdd(chunk) ==
    /\ chunk.shape \in {"obj", "dict"}
    /\ chunk.op = "add"
    /\ \E keyword \in PathKeywords : Contains(chunk.path, keyword)
    /\ chunk.value.kind # "bad"
    /\ LET text == Strip(chunk.value.text)
       IN  text = "" \/ Len(text) <= 20 \/ StartsWith(text, "{")

\* the loop reads a filtered event and leaves the projector's locals alone
FilteredLeavesLocals ==
    (/\ proj_pc = "loop"
     /\ chunk_index <= Len(log_chunks)
     /\ FilteredAdd(log_chunks[chunk_index]))
        => /\ proj'.current_node = proj.current_node
           /\ proj'.accumulated_content = proj.accumulated_content
           /\ proj'.step_counter = proj.step_counter
           /\ proj'.steps = proj.steps

\* C29: an add-type event on a streamed-output path whose stripped text is
\* empty, has 20 characters or fewer, or begins with a brace leaves the
\* current node, the accumulator, the step counter and the step list
\* unchanged, whatever its node; its text is in the detail of no Step
\* returned.
C29_FilterFrame ==
    /\ [][FilteredLeavesLocals]_vars
    /\ [](proj_pc = "returned" =>
             \A j \in 1..Len(log_chunks) :
                 (FilteredAdd(log_chunks[j]) /\ Strip(log_chunks[j].value.text) # "") =>
                     \A k \in 1..Len(thinking_steps) :
                         ~Appears(Strip(log_chunks[j].value.text),
                                  thinking_steps[k].details))

\* after a content event of node generate the loop read a short text and a
\* blank text of other nodes, and one Step, of generate, was returned
C29_Witness ==
    /\ proj_pc = "returned"
    /\ log_chunks = <<ChunkIssues, ChunkShort, ChunkBlank>>
    /\ thinking_steps = <<StepOf(1, "generate", TextIssues \o "\n")>>

\* C23: whenever the last message of the final history carries a tool call,
\* the final_answer of the result is the answer text of that tool call, and
\* not the different answer of an earlier message's tool call.
C23_LatestDraft ==
    (/\ run_pc = "done"
     /\ Len(responses) = 1
     /\ responses[1].kind = "result"
     /\ Truthy(final_response)
     /\ HasToolCalls(Last(ResponseOf(final_response))))
        => LET messages == ResponseOf(final_response)
               latest == Last(messages).tool_calls[1].args.answer
           IN  /\ responses[1].final_answer = latest
               /\ \A i \in 1..(Len(messages) - 1) :
                      (/\ HasToolCalls(messages[i])
                       /\ messages[i].tool_calls[1].args.answer # latest)
                          => responses[1].final_answer
                                # messages[i].tool_calls[1].args.answer

\* a history with an AnswerQuestion draft and a later ReviseAnswer draft got
\* its result, with the revised answer
C23_Witness ==
    /\ run_pc = "done"
    /\ final_response = "revised"
    /\ Len(responses) = 1
    /\ responses[1].kind = "result"
    /\ responses[1].final_answer = ReviseCall.args.answer
    /\ responses[1].final_answer # AnswerCall.args.answer

\* the event stream raised and the one blocking invoke made after it returned
StreamFailedInvokeReturned ==
    /\ calls.stream_raised = 1
    /\ calls.invoke = 1
    /\ calls.invoke_raised = 0

\* C27: whenever the event stream raises and the blocking invoke of the
\* handler then succeeds, the events collected from the stream are dropped
\* and the final response is the one the invoke returned; the thinking
\* steps of the result are the default Steps and its final answer is read
\* from the invoke's response.
C27_NoMixedTrace ==
    StreamFailedInvokeReturned =>
        /\ log_chunks = <<>>
        /\ final_response = calls.returned
        /\ run_pc = "done" =>
              /\ thinking_steps = DefaultSteps
              /\ Len(responses) = 1
              /\ responses[1].kind = "result" =>
                    /\ responses[1].thinking_steps = DefaultSteps
                    /\ responses[1].final_answer
                          = FinalAnswer(ResponseOf(calls.returned))
                    /\ responses[1].references
                          = extract_references(ResponseOf(calls.returned))

\* the stream raised and the invoke of the handler returned a response with
\* a plain last message: the result carries the default Steps and that
\* message's text as its final answer
C27_Witness ==
    /\ run_pc = "done"
    /\ StreamFailedInvokeReturned
    /\ calls.returned = "plain"
    /\ responses[1].kind = "result"
    /\ responses[1].thinking_steps = DefaultSteps
    /\ responses[1].final_answer = Last(HistoryPlain).content

IsStepStart(event) == event.type = "step_start"

IsStepComplete(event) == event.type = "step_complete"

\* the number of step_start and of step_complete events among the first i
StartsUpTo(i) == Len(SelectSeq(SubSeq(events, 1, i), IsStepStart))

CompletesUpTo(i) == Len(SelectSeq(SubSeq(events, 1, i), IsStepComplete))

\* the order of the step events: the k-th step_start carries the number k
\* and follows the step_complete of k - 1; the k-th step_complete carries
\* the number k and follows the step_start of k; a thinking_update lies in
\* an open step; a sequence that ends with complete has for every
\* step_start its step_complete with the same number and title
StepProtocol ==
    /\ \A i \in 1..Len(events) :
          /\ i > 1 => events[i].type # "start"
          /\ IsStepStart(events[i]) =>
                /\ events[i].step_number = StartsUpTo(i)
                /\ CompletesUpTo(i) = StartsUpTo(i) - 1
          /\ IsStepComplete(events[i]) =>
                /\ events[i].step_number = CompletesUpTo(i)
                /\ CompletesUpTo(i) = StartsUpTo(i)
          /\ events[i].type = "thinking_update" =>
                StartsUpTo(i) = CompletesUpTo(i) + 1
    /\ (events # <<>> /\ Last(events).type = "complete") =>
          LET starts == SelectSeq(events, IsStepStart)
              completes == SelectSeq(events, IsStepComplete)
          IN  /\ Len(starts) = Len(completes)
              /\ \A k \in 1..Len(starts) :
                    /\ completes[k].step_number = starts[k].step_number
                    /\ completes[k].step_name = starts[k].step_name

\* C25, as stated: in every event sequence of a streaming submission start
\* is the first event, and the step events follow the order of the step
\* protocol.
C25_StartAlwaysFirst ==
    /\ events # <<>> => events[1].type = "start"
    /\ StepProtocol

\* C25, amended: the event sequence of a submission whose case description
\* is rejected is the one error event; in every other event sequence start
\* is the first event; the step events follow the order of the step
\* protocol.
C25_StepProtocol ==
    /\ events # <<>> =>
          IF TooShort(case_description)
          THEN Len(events) = 1 /\ events[1].type = "error"
          ELSE events[1].type = "start"
    /\ StepProtocol

\* a stream was read to its complete event: a step with a thinking_update,
\* completed when an event of another node arrived, and a second step
C25_Witness ==
    /\ gen_pc = "finished"
    /\ delivered = <<ChunkLong, ChunkLong, ChunkSearch>>
    /\ Len(events) = 7
    /\ events[3].type = "thinking_update"
    /\ events[5].type = "step_start" /\ events[5].step_number = 2
    /\ events[7].type = "complete"

\* C26: for every event sequence on which the projector flushes at least
\* one Step, the step_complete events of the streaming endpoint, read to
\* the complete event on the same event sequence, are as many as the
\* projector's Steps and carry, position by position, the same step number
\* and the same node title.
C26_SameStepStructure ==
    (/\ events # <<>>
     /\ Last(events).type = "complete"
     /\ SelectSeq(delivered, IsContentChunk) # <<>>)
        => LET steps == extract_thinking_steps_from_log(delivered)
               completes == SelectSeq(events, IsStepComplete)
           IN  /\ Len(completes) = Len(steps)
               /\ \A k \in 1..Len(steps) :
                     /\ completes[k].step_number = steps[k].step_number
                     /\ completes[k].step_name = steps[k].step_name

====
